---- MODULE Spec2Model ----
(***************************************************************************)
(* Camera framing of zabih911-s.Org: lookAt and lookAtWithPadding          *)
(* (src/lib/state.ts), the elevation lookup they await, and their callers. *)
(*                                                                         *)
(* Numbers.  The code computes in IEEE doubles.  A number is modelled as   *)
(* a record [cls, v, ord]:                                                 *)
(*   cls = "fin": the value v * eps^ord in the fixed-point unit of its     *)
(*                quantity.  eps stands for the rounding residue of the    *)
(*                doubles nearest to pi/2 and pi (6.1e-17): Math.cos of    *)
(*                90 degrees and Math.sin of 180 degrees are not 0 in a    *)
(*                double, they are 1*eps and 2*eps.  ord = 0 is an         *)
(*                ordinary number; a sum keeps the term of lowest order    *)
(*                (the smaller one is rounded away), a product adds the    *)
(*                orders, a quotient subtracts them.                       *)
(*   cls = "inf": +Infinity (v = 1) or -Infinity (v = -1).                 *)
(*   cls = "nan": NaN.                                                     *)
(* Units: angles in eighths of a degree, trigonometric values in           *)
(* 1/TrigOne, radians in 1/RadOne, distances in metres, padding fractions  *)
(* in 1/PadOne, the scale factor in 1/ScaleOne, returned latitudes and     *)
(* longitudes in 1/DegOne degree, altitudes in 1/AltOne metre.             *)
(***************************************************************************)
EXTENDS Integers, Sequences, FiniteSets, TLC

----------------------------------------------------------------------------
(* Fixed-point units *)

AngPerDeg == 2^3

TrigOne == 2^14

RadOne == 10^5

PadOne == 4 * 5

ScaleOne == 10^3

DegOne == 10^6

AltOne == 10^3

----------------------------------------------------------------------------
(* Integer helpers *)

Neg(x) == 0 - x

Abs(x) == IF x < 0 THEN Neg(x) ELSE x

Sgn(x) == IF x < 0 THEN Neg(1) ELSE IF x > 0 THEN 1 ELSE 0

(* a * b / c truncated toward zero, without an intermediate overflow; c > 0 *)
MulDivNat(a, b, c) ==
  a * (b \div c) + (a \div c) * (b % c) + ((a % c) * (b % c)) \div c

MulDiv(a, b, c) == Sgn(a) * Sgn(b) * MulDivNat(Abs(a), Abs(b), c)

RECURSIVE SqrtSearch(_, _, _)
SqrtSearch(n, lo, hi) ==
  IF lo >= hi THEN lo
  ELSE LET mid == (lo + hi + 1) \div 2
       IN IF mid * mid <= n THEN SqrtSearch(n, mid, hi)
          ELSE SqrtSearch(n, lo, mid - 1)

(* floor of the square root of n >= 0 *)
ISqrt(n) == SqrtSearch(n, 0, 46340)

RECURSIVE HypotNat(_, _)
(* sqrt(a^2 + b^2) for a, b >= 0, halving both while a square would overflow *)
HypotNat(a, b) ==
  IF a >= 32768 \/ b >= 32768
    THEN 2 * HypotNat(a \div 2, b \div 2)
    ELSE ISqrt(a * a + b * b)

----------------------------------------------------------------------------
(* Numbers *)

Fin(v) == [cls |-> "fin", v |-> v, ord |-> 0]

Tiny(v, k) == IF v = 0 THEN Fin(0) ELSE [cls |-> "fin", v |-> v, ord |-> k]

Zero == Fin(0)

PosInf == [cls |-> "inf", v |-> 1, ord |-> 0]

NegInf == [cls |-> "inf", v |-> Neg(1), ord |-> 0]

NaN == [cls |-> "nan", v |-> 0, ord |-> 0]

Inf(s) == IF s < 0 THEN NegInf ELSE PosInf

IsFinite(a) == a.cls = "fin"

IsNaN(a) == a.cls = "nan"

FSign(a) == Sgn(a.v)

FNeg(a) == [a EXCEPT !.v = Neg(a.v)]

FAdd(a, b) ==
  IF IsNaN(a) \/ IsNaN(b) THEN NaN
  ELSE IF a.cls = "inf" /\ b.cls = "inf" THEN (IF a.v = b.v THEN a ELSE NaN)
  ELSE IF a.cls = "inf" THEN a
  ELSE IF b.cls = "inf" THEN b
  ELSE IF a.v = 0 THEN b
  ELSE IF b.v = 0 THEN a
  ELSE IF a.ord < b.ord THEN a
  ELSE IF b.ord < a.ord THEN b
  ELSE Tiny(a.v + b.v, a.ord)

FSub(a, b) == FAdd(a, FNeg(b))

(* a * b, the product of the fixed-point values divided by one *)
FMul(a, b, one) ==
  IF IsNaN(a) \/ IsNaN(b) THEN NaN
  ELSE IF a.cls = "inf" \/ b.cls = "inf"
    THEN (IF a.v = 0 \/ b.v = 0 THEN NaN ELSE Inf(Sgn(a.v) * Sgn(b.v)))
  ELSE IF a.v = 0 \/ b.v = 0 THEN Zero
  ELSE Tiny(MulDiv(a.v, b.v, one), a.ord + b.ord)

(* a / b, the quotient of the fixed-point values multiplied by one *)
FDiv(a, b, one) ==
  IF IsNaN(a) \/ IsNaN(b) THEN NaN
  ELSE IF a.cls = "inf"
    THEN (IF b.cls = "inf" THEN NaN
          ELSE Inf(a.v * (IF b.v < 0 THEN Neg(1) ELSE 1)))
  ELSE IF b.cls = "inf" THEN Zero
  ELSE IF b.v = 0 THEN (IF a.v = 0 THEN NaN ELSE Inf(Sgn(a.v)))
  ELSE IF a.v = 0 THEN Zero
  ELSE Tiny(Sgn(b.v) * MulDiv(a.v, one, Abs(b.v)), a.ord - b.ord)

(* a > b as JavaScript compares doubles: false when either is NaN *)
FGt(a, b) ==
  /\ ~IsNaN(a)
  /\ ~IsNaN(b)
  /\ a # b
  /\ FSign(FSub(a, b)) = 1

(* Math.max of two doubles *)
FMax(a, b) ==
  IF IsNaN(a) \/ IsNaN(b) THEN NaN
  ELSE IF FGt(b, a) THEN b ELSE a

(* Math.sqrt of a value whose unit is the square of the result's unit *)
FSqrt(a) ==
  IF IsNaN(a) THEN NaN
  ELSE IF a.v < 0 THEN NaN
  ELSE IF a.cls = "inf" THEN PosInf
  ELSE Tiny(ISqrt(a.v), a.ord \div 2)

(* Math.sqrt(a ** 2 + b ** 2) *)
FHypot(a, b) ==
  IF IsNaN(a) \/ IsNaN(b) THEN NaN
  ELSE IF a.cls = "inf" \/ b.cls = "inf" THEN PosInf
  ELSE IF a.v = 0 THEN [b EXCEPT !.v = Abs(b.v)]
  ELSE IF b.v = 0 THEN [a EXCEPT !.v = Abs(a.v)]
  ELSE IF a.ord < b.ord THEN [a EXCEPT !.v = Abs(a.v)]
  ELSE IF b.ord < a.ord THEN [b EXCEPT !.v = Abs(b.v)]
  ELSE Tiny(HypotNat(Abs(a.v), Abs(b.v)), a.ord)

----------------------------------------------------------------------------
(* Trigonometry.  Angles are in eighths of a degree. *)

(* Math.sin of 0 .. 90 degrees in steps of 1/8 degree, in 1/TrigOne *)
SinTab ==
  << 0, 36, 71, 107, 143, 179, 214, 250, 286, 322, 357, 393, 429, 465,
     500, 536, 572, 608, 643, 679, 715, 750, 786, 822, 857, 893, 929, 965,
     1000, 1036, 1072, 1107, 1143, 1179, 1214, 1250, 1285, 1321, 1357, 1392, 1428, 1464,
     1499, 1535, 1570, 1606, 1641, 1677, 1713, 1748, 1784, 1819, 1855, 1890, 1926, 1961,
     1997, 2032, 2068, 2103, 2139, 2174, 2209, 2245, 2280, 2316, 2351, 2386, 2422, 2457,
     2492, 2528, 2563, 2598, 2634, 2669, 2704, 2739, 2775, 2810, 2845, 2880, 2915, 2951,
     2986, 3021, 3056, 3091, 3126, 3161, 3196, 3231, 3266, 3301, 3336, 3371, 3406, 3441,
     3476, 3511, 3546, 3581, 3616, 3651, 3686, 3720, 3755, 3790, 3825, 3860, 3894, 3929,
     3964, 3998, 4033, 4068, 4102, 4137, 4171, 4206, 4240, 4275, 4310, 4344, 4378, 4413,
     4447, 4482, 4516, 4550, 4585, 4619, 4653, 4688, 4722, 4756, 4790, 4824, 4859, 4893,
     4927, 4961, 4995, 5029, 5063, 5097, 5131, 5165, 5199, 5233, 5266, 5300, 5334, 5368,
     5402, 5435, 5469, 5503, 5536, 5570, 5604, 5637, 5671, 5704, 5738, 5771, 5805, 5838,
     5872, 5905, 5938, 5971, 6005, 6038, 6071, 6104, 6138, 6171, 6204, 6237, 6270, 6303,
     6336, 6369, 6402, 6435, 6467, 6500, 6533, 6566, 6599, 6631, 6664, 6697, 6729, 6762,
     6794, 6827, 6859, 6892, 6924, 6957, 6989, 7021, 7053, 7086, 7118, 7150, 7182, 7214,
     7246, 7278, 7311, 7342, 7374, 7406, 7438, 7470, 7502, 7534, 7565, 7597, 7629, 7660,
     7692, 7723, 7755, 7786, 7818, 7849, 7881, 7912, 7943, 7974, 8006, 8037, 8068, 8099,
     8130, 8161, 8192, 8223, 8254, 8285, 8316, 8346, 8377, 8408, 8438, 8469, 8500, 8530,
     8561, 8591, 8621, 8652, 8682, 8712, 8743, 8773, 8803, 8833, 8863, 8893, 8923, 8953,
     8983, 9013, 9043, 9073, 9102, 9132, 9162, 9191, 9221, 9251, 9280, 9309, 9339, 9368,
     9397, 9427, 9456, 9485, 9514, 9543, 9572, 9601, 9630, 9659, 9688, 9717, 9746, 9774,
     9803, 9832, 9860, 9889, 9917, 9946, 9974, 10002, 10031, 10059, 10087, 10115, 10143, 10171,
     10199, 10227, 10255, 10283, 10311, 10339, 10366, 10394, 10422, 10449, 10477, 10504, 10531, 10559,
     10586, 10613, 10641, 10668, 10695, 10722, 10749, 10776, 10803, 10830, 10856, 10883, 10910, 10936,
     10963, 10990, 11016, 11042, 11069, 11095, 11121, 11148, 11174, 11200, 11226, 11252, 11278, 11304,
     11330, 11356, 11381, 11407, 11433, 11458, 11484, 11509, 11535, 11560, 11585, 11610, 11636, 11661,
     11686, 11711, 11736, 11761, 11786, 11810, 11835, 11860, 11885, 11909, 11934, 11958, 11982, 12007,
     12031, 12055, 12080, 12104, 12128, 12152, 12176, 12200, 12223, 12247, 12271, 12295, 12318, 12342,
     12365, 12389, 12412, 12435, 12458, 12482, 12505, 12528, 12551, 12574, 12597, 12620, 12642, 12665,
     12688, 12710, 12733, 12755, 12778, 12800, 12822, 12844, 12867, 12889, 12911, 12933, 12955, 12977,
     12998, 13020, 13042, 13063, 13085, 13106, 13128, 13149, 13170, 13192, 13213, 13234, 13255, 13276,
     13297, 13318, 13338, 13359, 13380, 13400, 13421, 13441, 13462, 13482, 13502, 13523, 13543, 13563,
     13583, 13603, 13623, 13643, 13662, 13682, 13702, 13721, 13741, 13760, 13780, 13799, 13818, 13837,
     13856, 13875, 13894, 13913, 13932, 13951, 13970, 13988, 14007, 14025, 14044, 14062, 14081, 14099,
     14117, 14135, 14153, 14171, 14189, 14207, 14225, 14242, 14260, 14277, 14295, 14312, 14330, 14347,
     14364, 14381, 14399, 14416, 14433, 14449, 14466, 14483, 14500, 14516, 14533, 14549, 14566, 14582,
     14598, 14614, 14631, 14647, 14663, 14679, 14694, 14710, 14726, 14741, 14757, 14773, 14788, 14803,
     14819, 14834, 14849, 14864, 14879, 14894, 14909, 14924, 14938, 14953, 14968, 14982, 14996, 15011,
     15025, 15039, 15053, 15068, 15082, 15095, 15109, 15123, 15137, 15150, 15164, 15178, 15191, 15204,
     15218, 15231, 15244, 15257, 15270, 15283, 15296, 15309, 15321, 15334, 15346, 15359, 15371, 15384,
     15396, 15408, 15420, 15432, 15444, 15456, 15468, 15480, 15491, 15503, 15515, 15526, 15537, 15549,
     15560, 15571, 15582, 15593, 15604, 15615, 15626, 15636, 15647, 15658, 15668, 15679, 15689, 15699,
     15709, 15719, 15729, 15739, 15749, 15759, 15769, 15779, 15788, 15798, 15807, 15816, 15826, 15835,
     15844, 15853, 15862, 15871, 15880, 15889, 15897, 15906, 15914, 15923, 15931, 15940, 15948, 15956,
     15964, 15972, 15980, 15988, 15996, 16003, 16011, 16019, 16026, 16033, 16041, 16048, 16055, 16062,
     16069, 16076, 16083, 16090, 16096, 16103, 16110, 16116, 16123, 16129, 16135, 16141, 16147, 16153,
     16159, 16165, 16171, 16177, 16182, 16188, 16193, 16199, 16204, 16209, 16214, 16220, 16225, 16229,
     16234, 16239, 16244, 16248, 16253, 16257, 16262, 16266, 16270, 16275, 16279, 16283, 16287, 16290,
     16294, 16298, 16302, 16305, 16309, 16312, 16315, 16318, 16322, 16325, 16328, 16331, 16333, 16336,
     16339, 16342, 16344, 16347, 16349, 16351, 16353, 16356, 16358, 16360, 16362, 16363, 16365, 16367,
     16368, 16370, 16371, 16373, 16374, 16375, 16376, 16377, 16378, 16379, 16380, 16381, 16382, 16382,
     16383, 16383, 16383, 16384, 16384, 16384, 16384 >>

Deg(d) == d * AngPerDeg

(* the angle brought into (-180, 180] degrees *)
WrapAngle(a) ==
  LET m == a % Deg(360)
  IN IF m > Deg(180) THEN m - Deg(360) ELSE m

(* the ordinary part of Math.sin: 0 at the multiples of 180 degrees *)
SinMain(a) ==
  LET w == WrapAngle(a)
      m == Abs(w)
      q == IF m > Deg(90) THEN Deg(180) - m ELSE m
  IN Sgn(w) * SinTab[q + 1]

CosMain(a) == SinMain(a + Deg(90))

(* Math.sin(a * degToRad) for -360 <= a <= 360 degrees.  At a nonzero    *)
(* multiple k of 180 degrees the double a * degToRad is not k * pi and   *)
(* the result is the residue (-1)^(k+1) * 2k * eps instead of 0.          *)
Sin(a) ==
  IF a % Deg(180) = 0 /\ a # 0
    THEN LET k == a \div Deg(180)
         IN Tiny((IF k % 2 = 0 THEN Neg(1) ELSE 1) * 2 * k * TrigOne, 1)
    ELSE Fin(SinMain(a))

(* the cosine of the angle itself, which is 0 at 90 degrees *)
CosOfAngle(a) == Fin(CosMain(a))

(* Math.cos(a * degToRad) for -360 <= a <= 360 degrees.  At an odd       *)
(* multiple of 90 degrees the result is the residue of the double        *)
(* nearest to that multiple of pi/2: 1 * eps at 90 and -90 degrees,     *)
(* -3 * eps at 270 and -270 degrees.                                     *)
Cos(a) ==
  IF Abs(a) % Deg(180) = Deg(90)
    THEN LET j == Abs(a) \div Deg(180)
         IN Tiny((IF j % 2 = 0 THEN 1 ELSE Neg(1)) * (2 * j + 1) * TrigOne, 1)
    ELSE Fin(CosMain(a))

(* Math.tan(a * degToRad) away from the multiples of 90 degrees *)
Tan(a) == Fin((SinMain(a) * TrigOne) \div CosMain(a))

(* Math.PI / 180 in 1/10^8 radian *)
DegToRad == 1745329

RECURSIVE ArcSinIndex(_, _, _)
(* the largest index i in lo .. hi with SinTab[i + 1] <= s *)
ArcSinIndex(s, lo, hi) ==
  IF lo >= hi THEN lo
  ELSE LET mid == (lo + hi + 1) \div 2
       IN IF SinTab[mid + 1] <= s THEN ArcSinIndex(s, mid, hi)
          ELSE ArcSinIndex(s, lo, mid - 1)

(* the angle between entries i and i + 1 of tab, step apart, at which the *)
(* tabulated function is s                                                *)
Interpolate(s, i, step, tab) ==
  (i * step
   + (IF i + 1 = Len(tab) THEN 0
      ELSE ((s - tab[i + 1]) * step) \div (tab[i + 2] - tab[i + 1]))) \div 1000

(* the angle in 1/RadOne radian whose sine is s / TrigOne, 0 <= s <= TrigOne, *)
(* interpolated between the entries of SinTab                                 *)
ArcSin(s) == Interpolate(s, ArcSinIndex(s, 0, Deg(90)), DegToRad \div AngPerDeg, SinTab)

(* Math.atan2(y, x) for y >= 0 and x >= 0, in 1/RadOne radian *)
Atan2(y, x) ==
  IF IsNaN(y) \/ IsNaN(x) THEN NaN
  ELSE IF y.v = 0 THEN Zero
  ELSE IF x.v # 0 /\ y.ord > x.ord
    THEN Tiny(MulDiv(y.v, RadOne, x.v), y.ord - x.ord)
  ELSE Fin(ArcSin(IF x.v = 0 \/ y.ord < x.ord THEN TrigOne
                  ELSE (y.v * TrigOne) \div HypotNat(y.v, x.v)))

----------------------------------------------------------------------------
(* lookAt and lookAtWithPadding: the arithmetic after the elevation lookup. *)
(* A location is [lat, lng, alt, hasAlt]: lat and lng in eighths of a      *)
(* degree on the half-degree grid (multiples of 4, so that the middle of   *)
(* two of them and half of a difference are whole eighths), alt in metres, *)
(* hasAlt FALSE for a location without the optional alt property.          *)
(* A padding is <<top, right, bottom, left>> in 1/PadOne.                  *)

earthRadius == 6371000

targetTiltDeg == 60

MetersPerDegree == 111000

OffsetOne == 2 * PadOne

RECURSIVE BoundingBox(_, _, _)
(* the forEach that narrows minLat, maxLat, minLng, maxLng from +-Infinity *)
BoundingBox(locations, i, box) ==
  IF i > Len(locations) THEN box
  ELSE LET loc == locations[i]
           lat == Fin(loc.lat)
           lng == Fin(loc.lng)
       IN BoundingBox(locations, i + 1,
            [minLat |-> IF FGt(box.minLat, lat) THEN lat ELSE box.minLat,
             maxLat |-> IF FGt(lat, box.maxLat) THEN lat ELSE box.maxLat,
             minLng |-> IF FGt(box.minLng, lng) THEN lng ELSE box.minLng,
             maxLng |-> IF FGt(lng, box.maxLng) THEN lng ELSE box.maxLng])

Box(locations) ==
  BoundingBox(locations, 1,
    [minLat |-> PosInf, maxLat |-> NegInf, minLng |-> PosInf, maxLng |-> NegInf])

(* centre of the bounding box, in eighths of a degree *)
CenterLat(box) == FDiv(FAdd(box.minLat, box.maxLat), Fin(2), 1)

CenterLng(box) == FDiv(FAdd(box.minLng, box.maxLng), Fin(2), 1)

RECURSIVE SumAlt(_, _, _)
SumAlt(locations, ALTITUDE, i) ==
  IF i > Len(locations) THEN 0
  ELSE ALTITUDE + (IF locations[i].hasAlt THEN locations[i].alt ELSE 0)
       + SumAlt(locations, ALTITUDE, i + 1)

(* the altitude of the first location alone *)
LookAtAltitudeOfFirst(locations, ALTITUDE) ==
  IF Len(locations) > 0 THEN SumAlt(SubSeq(locations, 1, 1), ALTITUDE, 1) * AltOne
  ELSE 0

(* sumAlt / countAlt, in 1/AltOne metre *)
LookAtAltitude(locations, ALTITUDE) ==
  LET countAlt == Len(locations)
  IN IF countAlt > 0
       THEN (SumAlt(locations, ALTITUDE, 1) * AltOne) \div countAlt
       ELSE 0

(* a of haversine, in 1/TrigOne^2, from the sines of the half differences *)
(* and the cosines of the latitudes                                        *)
HaversineA(sinLat, sinLng, cosLat1, cosLat2) ==
  FAdd(FMul(sinLat, sinLat, 1),
       FMul(FMul(cosLat1, cosLat2, TrigOne), FMul(sinLng, sinLng, 1), TrigOne))

(* atan2 with its arguments exchanged *)
HaversineCExchanged(a) ==
  FMul(Fin(2), Atan2(FSqrt(FSub(Fin(TrigOne * TrigOne), a)), FSqrt(a)), 1)

(* what haversine returns for a: 2 * atan2(sqrt(a), sqrt(1 - a)) *)
HaversineC(a) ==
  FMul(Fin(2), Atan2(FSqrt(a), FSqrt(FSub(Fin(TrigOne * TrigOne), a))), 1)

(* angular distance in 1/RadOne radian between two positions given in  *)
(* eighths of a degree                                                  *)
haversine(lat1, lng1, lat2, lng2) ==
  HaversineC(HaversineA(Sin((lat2 - lat1) \div 2), Sin((lng2 - lng1) \div 2),
                        Cos(lat1), Cos(lat2)))

(* the distance that stays in maxAngularDistance *)
Farther(d, maxAngularDistance) ==
  IF FGt(d, maxAngularDistance) THEN d ELSE maxAngularDistance

RECURSIVE MaxDistanceFrom(_, _, _, _, _)
MaxDistanceFrom(locations, centerLat, centerLng, i, maxAngularDistance) ==
  IF i > Len(locations) THEN maxAngularDistance
  ELSE MaxDistanceFrom(locations, centerLat, centerLng, i + 1,
         Farther(haversine(centerLat, centerLng, locations[i].lat, locations[i].lng),
                 maxAngularDistance))

(* the largest angular distance from the centre to a location *)
MaxAngularDistance(locations, centerLat, centerLng) ==
  MaxDistanceFrom(locations, centerLat.v, centerLng.v, 1, Zero)

(* twice the ground distance of the angular extent, in metres *)
ContentHorizontalDistance(maxAngularDistance) ==
  FMul(FMul(maxAngularDistance, Fin(earthRadius \div 1000), RadOne \div 1000),
       Fin(2), 1)

(* the full distance without the scale factor *)
FullHorizontalDistanceUnscaled(maxAngularDistance, scale) ==
  ContentHorizontalDistance(maxAngularDistance)

(* the content distance enlarged by the scale factor *)
FullHorizontalDistance(maxAngularDistance, scale) ==
  FMul(ContentHorizontalDistance(maxAngularDistance), scale, ScaleOne)

PadTop(padding) == padding[1]

PadRight(padding) == padding[2]

PadBottom(padding) == padding[3]

PadLeft(padding) == padding[4]

VisibleWidthFraction(padding) == Fin(PadOne - PadLeft(padding) - PadRight(padding))

VisibleHeightFraction(padding) == Fin(PadOne - PadTop(padding) - PadBottom(padding))

(* the scale factor of the less occluded axis alone *)
ScaleOfWiderAxis(padding) ==
  IF FGt(VisibleWidthFraction(padding), VisibleHeightFraction(padding))
    THEN FDiv(Fin(ScaleOne), VisibleWidthFraction(padding), PadOne)
    ELSE FDiv(Fin(ScaleOne), VisibleHeightFraction(padding), PadOne)

(* Math.max(1 / visibleWidthFraction, 1 / visibleHeightFraction), in 1/ScaleOne *)
Scale(padding) ==
  FMax(FDiv(Fin(ScaleOne), VisibleWidthFraction(padding), PadOne),
       FDiv(Fin(ScaleOne), VisibleHeightFraction(padding), PadOne))

(* the horizontal offset with left and right exchanged *)
OffsetXExchanged(padding) == Fin(PadRight(padding) - PadLeft(padding))

(* (padLeft - padRight) / 2 and (padTop - padBottom) / 2, in 1/OffsetOne *)
OffsetX(padding) == Fin(PadLeft(padding) - PadRight(padding))

(* offsetY with top and bottom exchanged *)
OffsetYExchanged(padding) == Fin(PadBottom(padding) - PadTop(padding))

OffsetY(padding) == Fin(PadTop(padding) - PadBottom(padding))

(* the shift vector with the sign of x not flipped *)
ShiftVectorSameSign(padding, fullHorizontalDistance) ==
  [x |-> FMul(OffsetX(padding), fullHorizontalDistance, OffsetOne),
   y |-> FMul(OffsetY(padding), fullHorizontalDistance, OffsetOne)]

(* the shift vector in screen metres: x = -offsetGeoScreenX, y = offsetGeoScreenY *)
ShiftVectorScreenMeters(padding, fullHorizontalDistance) ==
  [x |-> FNeg(FMul(OffsetX(padding), fullHorizontalDistance, OffsetOne)),
   y |-> FMul(OffsetY(padding), fullHorizontalDistance, OffsetOne)]

(* the shift vector turned by the heading into east and north metres; *)
(* cosH and sinH are the cosine and sine of the heading                *)
ShiftEastMeters(shift, cosH, sinH) ==
  FSub(FMul(shift.x, cosH, TrigOne), FMul(shift.y, sinH, TrigOne))

ShiftNorthMeters(shift, cosH, sinH) ==
  FAdd(FMul(shift.x, sinH, TrigOne), FMul(shift.y, cosH, TrigOne))

Rotated(shift, cosH, sinH) ==
  [east |-> ShiftEastMeters(shift, cosH, sinH),
   north |-> ShiftNorthMeters(shift, cosH, sinH)]

(* the shift vector taken as east and north metres, not rotated *)
ShiftMetersUnrotated(padding, heading, fullHorizontalDistance) ==
  Rotated(ShiftVectorScreenMeters(padding, fullHorizontalDistance),
          Cos(Deg(0)), Sin(Deg(0)))

(* the shift vector turned with the cosine and the sine of the heading *)
(* exchanged                                                            *)
ShiftMetersExchanged(padding, heading, fullHorizontalDistance) ==
  Rotated(ShiftVectorScreenMeters(padding, fullHorizontalDistance),
          Sin(Deg(heading)), Cos(Deg(heading)))

(* the shift in east and north metres for a padding, a heading in      *)
(* degrees and the full horizontal distance                            *)
ShiftMeters(padding, heading, fullHorizontalDistance) ==
  Rotated(ShiftVectorScreenMeters(padding, fullHorizontalDistance),
          Cos(Deg(heading)), Sin(Deg(heading)))

(* metres to degrees, in 1/DegOne degree; the division by             *)
(* 111000 * cos(centerLat) is done as two divisions                    *)
ShiftLatDeg(shiftNorthMeters) ==
  FDiv(shiftNorthMeters, Fin(MetersPerDegree \div 1000), DegOne \div 1000)

ShiftLngDeg(shiftEastMeters, centerLat) ==
  FDiv(FDiv(shiftEastMeters, Fin(MetersPerDegree \div 1000), DegOne \div 1000),
       Cos(centerLat.v), TrigOne)

(* eighths of a degree to 1/DegOne degree *)
ToDegrees(angle) == FMul(angle, Fin(DegOne \div AngPerDeg), 1)

(* the horizontal distance multiplied by the tangent of the tilt *)
VerticalDistanceByProduct(horizontalDistance) ==
  FMul(horizontalDistance, Tan(Deg(targetTiltDeg)), TrigOne)

(* the slant range over a horizontal distance at the target tilt *)
VerticalDistance(horizontalDistance) ==
  FDiv(horizontalDistance, Tan(Deg(targetTiltDeg)), TrigOne)

SlantRange(horizontalDistance) ==
  FHypot(horizontalDistance, VerticalDistance(horizontalDistance))

----------------------------------------------------------------------------
(* The elevation service and fetchElevation *)

(* elevations, in metres, that the service reports *)
ElevationValues == {250}

(* how elevator.getElevationForLocations ends: it throws, its promise    *)
(* rejects, or its promise fulfils with an object whose results are      *)
(* missing (hasResults FALSE), empty, or one elevation                    *)
ElevatorResponses ==
  {[kind |-> "threw", hasResults |-> FALSE, results |-> <<>>],
   [kind |-> "rejected", hasResults |-> FALSE, results |-> <<>>],
   [kind |-> "fulfilled", hasResults |-> FALSE, results |-> <<>>],
   [kind |-> "fulfilled", hasResults |-> TRUE, results |-> <<>>]}
  \cup {[kind |-> "fulfilled", hasResults |-> TRUE, results |-> <<e>>] :
          e \in ElevationValues}

NoResponse == [kind |-> "none", hasResults |-> FALSE, results |-> <<>>]

(* fetchElevation without its try and catch: an error of the service   *)
(* leaves it                                                            *)
fetchElevationUncaught(response) ==
  IF response.kind = "fulfilled"
    THEN [threw |-> FALSE,
          value |-> IF response.hasResults /\ Len(response.results) > 0
                      THEN response.results[1] ELSE 0]
    ELSE [threw |-> TRUE, value |-> 0]

(* what fetchElevation does with the response: threw TRUE when the error *)
(* leaves fetchElevation, value the number it returns otherwise          *)
fetchElevation(response) ==
  IF response.kind = "fulfilled" /\ response.hasResults /\ Len(response.results) > 0
    THEN [threw |-> FALSE, value |-> response.results[1]]
    ELSE [threw |-> FALSE, value |-> 0]

(* one request for every location instead of one for the first *)
ElevationRequestsPerPoint(locations) ==
  [i \in 1..Len(locations) |-> [lat |-> locations[i].lat, lng |-> locations[i].lng]]

(* the requests a call sends to the elevation service: one, for the      *)
(* first location, in degrees * AngPerDeg                                *)
ElevationRequests(locations) ==
  <<[lat |-> locations[1].lat, lng |-> locations[1].lng]>>

----------------------------------------------------------------------------
(* Inputs *)

PoolSize == 6

Location(lat, lng) == [lat |-> lat, lng |-> lng, alt |-> 0, hasAlt |-> FALSE]

LocationAt(lat, lng, alt) == [lat |-> lat, lng |-> lng, alt |-> alt, hasAlt |-> TRUE]

(* the four corners of the 1 degree box around (0, 0), two locations at *)
(* the north pole, and a location on top of the last one that differs   *)
(* from it in its altitude only                                          *)
PointPool ==
  <<Location(4, 4), Location(-4, -4), Location(4, -4), Location(-4, 4),
    LocationAt(720, 80, 12), Location(720, 400), LocationAt(720, 400, 30)>>

PoolLen == IF PoolSize < Len(PointPool) THEN PoolSize ELSE Len(PointPool)

(* the empty list and the runs of consecutive locations among the first *)
(* PoolSize locations of the pool                                        *)
LocationLists ==
  {<<>>} \cup {SubSeq(PointPool, i, j) : i \in 1..PoolLen, j \in 1..PoolLen}

(* lists that span the globe in longitude: the second location of the   *)
(* first list, (-8, 180), is the antipode of the centre (8, 0) of its    *)
(* bounding box; the centre of the second list is (0, 0)                 *)
GlobeLists ==
  {<<Location(Deg(24), Neg(Deg(180))), Location(Neg(Deg(8)), Deg(180))>>,
   <<Location(0, Neg(Deg(180))), Location(0, Deg(180))>>,
   <<Location(Deg(24), Neg(Deg(180))), Location(Deg(24), Deg(180))>>}

(* lists whose bounding-box centre is at the south pole, at the north   *)
(* pole, and half a degree from it                                       *)
PoleLists ==
  {<<Location(Neg(Deg(90)), Deg(10))>>,
   <<Location(Neg(Deg(90)), Deg(10)), Location(Neg(Deg(90)), Deg(50))>>,
   <<Location(Deg(90), Deg(10))>>,
   <<Location(Deg(90), Deg(10)), Location(Deg(90), Deg(50))>>,
   <<Location(Deg(89), 0), Location(Deg(90), 0)>>}

Headings == {0, 90, 180, 270}

(* the heading argument of a call: <<>> when the caller omits it *)
HeadingArgs == {<<>>} \cup {<<h>> : h \in Headings}

(* a parameter that is always 0, whatever the caller passes *)
HeadingIgnored(arg) == 0

(* the parameter "heading = 0": the argument, 0 when it is omitted *)
HeadingParameter(arg) == IF arg = <<>> THEN 0 ELSE arg[1]

NoPadding == <<0, 0, 0, 0>>

(* <<top, right, bottom, left>> in 1/PadOne *)
Paddings == {0, 1} \X {0, 1, 10} \X {0, 1, 20} \X {0, 1, 7, 12}

----------------------------------------------------------------------------
(* The framings of all inputs.  They are computed once: TLC keeps a      *)
(* function in tabulated form once it has compared it.                   *)

Table(f) == IF f = f THEN f ELSE f

NonEmptyLists == LocationLists \ {<<>>}

(* the lists whose extent is measured *)
ExtentLists == NonEmptyLists \cup GlobeLists

(* the bounding-box centre (eighths of a degree) and the angular extent *)
Extent(locations, centerLat, centerLng) ==
  [centerLat |-> centerLat,
   centerLng |-> centerLng,
   maxAngularDistance |-> MaxAngularDistance(locations, centerLat, centerLng)]

Centred(locations, box) == Extent(locations, CenterLat(box), CenterLng(box))

Geometry(locations) == Centred(locations, Box(locations))

GeometryOf == Table([ls \in ExtentLists \cup PoleLists |-> Geometry(ls)])

(* the locals of lookAtWithPadding that do not depend on the elevation, *)
(* for a non-empty list: each is computed from the ones before it       *)
Shifted(g, padding, scale, fullHorizontalDistance, shift) ==
  [centerLat |-> ToDegrees(g.centerLat),
   centerLng |-> ToDegrees(g.centerLng),
   maxAngularDistance |-> g.maxAngularDistance,
   scale |-> scale,
   offsetX |-> OffsetX(padding),
   offsetY |-> OffsetY(padding),
   fullHorizontalDistance |-> fullHorizontalDistance,
   shiftEastMeters |-> shift.east,
   shiftNorthMeters |-> shift.north,
   newCenterLat |-> FAdd(ToDegrees(g.centerLat), ShiftLatDeg(shift.north)),
   newCenterLng |-> FAdd(ToDegrees(g.centerLng), ShiftLngDeg(shift.east, g.centerLat)),
   slantRange |-> SlantRange(fullHorizontalDistance)]

Enlarged(g, heading, padding, scale, fullHorizontalDistance) ==
  Shifted(g, padding, scale, fullHorizontalDistance,
          ShiftMeters(padding, heading, fullHorizontalDistance))

Scaled(g, heading, padding, scale) ==
  Enlarged(g, heading, padding, scale,
           FullHorizontalDistance(g.maxAngularDistance, scale))

PaddedFraming(locations, heading, padding) ==
  Scaled(GeometryOf[locations], heading, padding, Scale(padding))

(* the locals of lookAt that do not depend on the elevation *)
Ranged(g, horizontalDistance) ==
  [centerLat |-> ToDegrees(g.centerLat),
   centerLng |-> ToDegrees(g.centerLng),
   maxAngularDistance |-> g.maxAngularDistance,
   horizontalDistance |-> horizontalDistance,
   slantRange |-> SlantRange(horizontalDistance)]

Measured(g) == Ranged(g, ContentHorizontalDistance(g.maxAngularDistance))

PlainFraming(locations) == Measured(GeometryOf[locations])

(* the padded pose with the average of the alt properties alone, the   *)
(* elevation of the area left out                                       *)
PaddedPoseWithoutElevation(l, locations, heading, ALTITUDE) ==
  [lat |-> l.newCenterLat,
   lng |-> l.newCenterLng,
   altitude |-> LookAtAltitude(locations, 0),
   range |-> l.slantRange,
   tilt |-> targetTiltDeg,
   heading |-> heading]

(* the object a call returns, from its locals l *)
PaddedPose(l, locations, heading, ALTITUDE) ==
  [lat |-> l.newCenterLat,
   lng |-> l.newCenterLng,
   altitude |-> LookAtAltitude(locations, ALTITUDE),
   range |-> l.slantRange,
   tilt |-> targetTiltDeg,
   heading |-> heading]

PlainPose(l, locations, heading, ALTITUDE) ==
  [lat |-> l.centerLat,
   lng |-> l.centerLng,
   altitude |-> LookAtAltitude(locations, ALTITUDE),
   range |-> l.slantRange,
   tilt |-> targetTiltDeg,
   heading |-> heading]

Outcome(l, pose, ALTITUDE) == [ALTITUDE |-> ALTITUDE, locals |-> l, pose |-> pose]

PaddedOutcome(l, locations, heading, ALTITUDE) ==
  Outcome(l, PaddedPose(l, locations, heading, ALTITUDE), ALTITUDE)

PlainOutcome(l, locations, heading, ALTITUDE) ==
  Outcome(l, PlainPose(l, locations, heading, ALTITUDE), ALTITUDE)

(* lookAtWithPadding after its await: its locals and the object it      *)
(* returns                                                               *)
lookAtWithPadding(locations, heading, padding, ALTITUDE) ==
  PaddedOutcome(PaddedFraming(locations, heading, padding), locations, heading, ALTITUDE)

(* lookAt after its await: its locals and the object it returns *)
lookAt(locations, heading, ALTITUDE) ==
  PlainOutcome(PlainFraming(locations), locations, heading, ALTITUDE)

----------------------------------------------------------------------------
(* One call of lookAt or lookAtWithPadding.                              *)
(*   pc           "idle", "awaiting" (suspended in the await of          *)
(*                fetchElevation) or "done"                              *)
(*   call         the function called and its arguments                  *)
(*   elevRequests the requests sent to the elevation service so far      *)
(*   settled      how the elevation lookup ended                         *)
(*   frame        the locals of the call after the await                 *)
(*   result       nothing yet, the returned pose, or the error the       *)
(*                returned promise is rejected with                      *)

VARIABLES pc, call, elevRequests, settled, frame, result

(* The application around the engine (src/App.tsx, src/lib/map-controller.ts, *)
(* src/lib/maps-grounding.ts).                                            *)
(*   layout           the sizes calculatePadding reads                    *)
(*   padding          the padding state of AppComponent, in 1/FracOne     *)
(*   markers          markers of the map store: the list of positions     *)
(*   preventAutoFrame preventAutoFrame of the map store                   *)
(*   cameraTarget     cameraTarget of the map store                       *)
(*   requests         the calls of lookAtWithPadding the callers made, in *)
(*                    the order they were started                         *)
(*   flights          the arguments of map.flyCameraTo, in call order     *)
(*   mapController    whether mapController.current of AppComponent holds *)
(*                    a MapController                                     *)
(*   targetEffectDue  whether cameraTarget has changed and the camera     *)
(*                    target effect of AppComponent has yet to run for it *)
(*   toolReturn       what the tool that returned last has returned       *)

VARIABLES layout, padding, markers, preventAutoFrame, cameraTarget, requests, flights

VARIABLES mapController, targetEffectDue, toolReturn

(* The camera events of the map element                                  *)
(* (src/components/map-3d/use-map-3d-camera-events.ts).                  *)
(*   cameraPropsRef cameraPropsRef.current of useMap3DCameraEvents        *)
(*   updateQueued   updateQueued of its effect                            *)
(*   microtasks     the microtask queue                                   *)
(*   cameraCalls    the arguments of the calls of onCameraChange, as      *)
(*                  they were at the calls                                *)
(*   task           the script of the running task: whether it runs, the  *)
(*                  camera events it has dispatched, and the number of    *)
(*                  calls of onCameraChange made before it                *)

VARIABLES cameraPropsRef, updateQueued, microtasks, cameraCalls, task

(* The tool calls of the Live API (src/contexts/LiveAPIContext.tsx).     *)
(*   toolCalls      the runs of onToolCall, in the order of their        *)
(*                  toolcall events: the function calls of the event,    *)
(*                  where the run stands, and its functionResponses      *)
(*   isAwaitingFunctionResponse                                          *)
(*                  isAwaitingFunctionResponse of the log store          *)
(*   sent           the calls of client.sendToolResponse in call order:  *)
(*                  the run that made the call and its argument          *)

VARIABLES toolCalls, isAwaitingFunctionResponse, sent

engineVars == <<pc, call, elevRequests, settled, frame, result>>

toolVars == <<toolCalls, isAwaitingFunctionResponse, sent>>

cameraVars == <<cameraPropsRef, updateQueued, microtasks, cameraCalls, task>>

appVars ==
  <<layout, padding, markers, preventAutoFrame, cameraTarget, requests, flights,
    mapController, targetEffectDue, toolReturn>>

vars == <<engineVars, appVars, cameraVars, toolVars>>

NoCall ==
  [fn |-> "none", locations |-> <<>>, headingArg |-> <<>>, heading |-> 0,
   padding |-> NoPadding]

NoFrame == [ALTITUDE |-> 0, locals |-> <<>>]

NoResult == [kind |-> "none"]

Rejected(error) == [kind |-> "rejected", error |-> error]

Returned(pose) == [kind |-> "pose", pose |-> pose]

(* padding fractions of the application, in 1/FracOne *)
FracOne == 1000

(* what calculatePadding reads: window.innerWidth and innerHeight, the   *)
(* offsetWidth of the console panel, the offsetHeight of the control     *)
(* tray (pixels), and whether both refs are attached                     *)
Layout(vw, vh, consoleWidth, trayHeight, mounted) ==
  [vw |-> vw, vh |-> vh, consoleWidth |-> consoleWidth, trayHeight |-> trayHeight,
   mounted |-> mounted]

(* before the first render has attached the refs *)
InitialLayout == Layout(1000, 800, 0, 0, FALSE)

(* useState([0.05, 0.05, 0.05, 0.05]) *)
InitialPadding == <<FracOne \div 20, FracOne \div 20, FracOne \div 20, FracOne \div 20>>

NoTarget == [kind |-> "null"]

(* DEFAULT_CAMERA_PROPS *)
DEFAULT_CAMERA_PROPS ==
  [center |-> [lat |-> 0, lng |-> 0, altitude |-> 0],
   range |-> 0, heading |-> 0, tilt |-> 0, roll |-> 0]

(* no tool has returned yet *)
NoReturn == ""

NoTask == [running |-> FALSE, events |-> <<>>, callsBefore |-> 0]

Init ==
  /\ pc = "idle"
  /\ call = NoCall
  /\ elevRequests = <<>>
  /\ settled = NoResponse
  /\ frame = NoFrame
  /\ result = NoResult
  /\ layout = InitialLayout
  /\ padding = InitialPadding
  /\ markers = <<>>
  /\ preventAutoFrame = FALSE
  /\ cameraTarget = NoTarget
  /\ requests = <<>>
  /\ flights = <<>>
  /\ mapController = FALSE
  /\ targetEffectDue = FALSE
  /\ toolReturn = NoReturn
  /\ cameraPropsRef = DEFAULT_CAMERA_PROPS
  /\ updateQueued = FALSE
  /\ microtasks = <<>>
  /\ cameraCalls = <<>>
  /\ task = NoTask
  /\ toolCalls = <<>>
  /\ isAwaitingFunctionResponse = FALSE
  /\ sent = <<>>

(* the call up to its await: reading locations[0].lat of an empty list   *)
(* throws a TypeError, which rejects the promise the async function      *)
(* returns; otherwise fetchElevation sends its request                   *)
Enter(f, locs, harg, p) ==
  /\ pc = "idle"
  /\ call' = [fn |-> f, locations |-> locs, headingArg |-> harg,
              heading |-> HeadingParameter(harg), padding |-> p]
  /\ settled' = NoResponse
  /\ frame' = NoFrame
  /\ IF Len(locs) = 0
       THEN /\ pc' = "done"
            /\ elevRequests' = <<>>
            /\ result' = Rejected("TypeError")
       ELSE /\ pc' = "awaiting"
            /\ elevRequests' = ElevationRequests(locs)
            /\ result' = NoResult
  /\ UNCHANGED <<appVars, cameraVars, toolVars>>

CallLookAt ==
  \E locs \in LocationLists, harg \in HeadingArgs :
    Enter("lookAt", locs, harg, NoPadding)

CallLookAtWithPadding ==
  \E locs \in LocationLists, harg \in HeadingArgs, p \in Paddings :
    Enter("lookAtWithPadding", locs, harg, p)

(* the rest of the called function, once ALTITUDE is known *)
Resume(c, altitude) ==
  IF c.fn = "lookAt"
    THEN lookAt(c.locations, c.heading, altitude)
    ELSE lookAtWithPadding(c.locations, c.heading, c.padding, altitude)

(* the function returns: its promise fulfils with the pose *)
Return(out) ==
  /\ frame' = [ALTITUDE |-> out.ALTITUDE, locals |-> out.locals]
  /\ result' = Returned(out.pose)

(* fetchElevation is over: an error that left it rejects the promise of  *)
(* the call, a value lets the rest of the function run to its return     *)
AfterFetch(fetched) ==
  IF fetched.threw
    THEN /\ frame' = frame
         /\ result' = Rejected("ElevationError")
    ELSE Return(Resume(call, fetched.value))

(* the elevation lookup ends *)
ElevationSettles ==
  /\ pc = "awaiting"
  /\ \E r \in ElevatorResponses :
       /\ settled' = r
       /\ AfterFetch(fetchElevation(r))
  /\ pc' = "done"
  /\ UNCHANGED <<call, elevRequests>>
  /\ UNCHANGED <<appVars, cameraVars, toolVars>>

(* the caller has the outcome; the next call starts from scratch *)
Finish ==
  /\ pc = "done"
  /\ pc' = "idle"
  /\ call' = NoCall
  /\ elevRequests' = <<>>
  /\ settled' = NoResponse
  /\ frame' = NoFrame
  /\ result' = NoResult
  /\ UNCHANGED <<appVars, cameraVars, toolVars>>

Next == CallLookAt \/ CallLookAtWithPadding \/ ElevationSettles \/ Finish

Spec == Init /\ [][Next]_vars

----------------------------------------------------------------------------
(* The bounding calculation on its own: lookAtWithPadding with its       *)
(* default padding, for the lists of Spec and lists that span the globe  *)

CallOnGlobe ==
  \E locs \in ExtentLists, harg \in HeadingArgs :
    Enter("lookAtWithPadding", locs, harg, NoPadding)

NextExtent == CallOnGlobe \/ ElevationSettles \/ Finish

SpecExtent == Init /\ [][NextExtent]_vars

----------------------------------------------------------------------------
(* lookAtWithPadding for the lists at the poles, with every padding and  *)
(* heading                                                               *)

CallAtPole ==
  \E locs \in PoleLists, harg \in HeadingArgs, p \in Paddings :
    Enter("lookAtWithPadding", locs, harg, p)

NextPoles == CallAtPole \/ ElevationSettles \/ Finish

SpecPoles == Init /\ [][NextPoles]_vars

----------------------------------------------------------------------------
(* The application: calculatePadding and the markers effect of           *)
(* AppComponent, the tools that change the map store, and                *)
(* MapController.frameEntities.  The MapController exists (the map and   *)
(* its libraries are loaded) once the MapController effect has run.  A   *)
(* change of the markers, the padding or preventAutoFrame and the        *)
(* markers effect React runs for it are one step; the camera target      *)
(* effect is a step of its own.  The tools run with the geocoder and the *)
(* elevation library loaded.                                             *)

MaxRequests == 2

MaxFlights == 3

Max(a, b) == IF a >= b THEN a ELSE b

(* window.matchMedia('(max-width: 768px)').matches *)
isMobile(l) == l.vw <= 768

(* the padding with the bottom computed from the height of the control  *)
(* tray as the left is from the width of the console panel               *)
calculatePaddingWithTray(l) ==
  <<FracOne \div 20,
    FracOne \div 20,
    IF isMobile(l) THEN FracOne \div 20
    ELSE Max(FracOne \div 20, (l.trayHeight * FracOne) \div l.vh + FracOne \div 50),
    IF isMobile(l) THEN FracOne \div 20
    ELSE Max(FracOne \div 20, (l.consoleWidth * FracOne) \div l.vw + FracOne \div 50)>>

(* [top, right, bottom, left] as calculatePadding passes it to           *)
(* setPadding, in 1/FracOne                                              *)
calculatePadding(l) ==
  <<FracOne \div 20,
    FracOne \div 20,
    FracOne \div 20,
    IF isMobile(l) THEN FracOne \div 20
    ELSE Max(FracOne \div 20, (l.consoleWidth * FracOne) \div l.vw + FracOne \div 50)>>

(* a desktop window whose console panel takes a third, and a phone *)
AppLayouts == {Layout(1000, 800, 330, 60, TRUE), Layout(500, 800, 500, 60, TRUE)}

(* the positions of the markers a tool sets: one position, two, four *)
MarkerLists == {SubSeq(PointPool, 1, 1), SubSeq(PointPool, 1, 2), SubSeq(PointPool, 1, 4)}

(* the padding of the application in the unit of the engine model *)
EnginePadding(p) == [i \in 1..4 |-> (p[i] * PadOne) \div FracOne]

NoPose == <<>>

(* a call of lookAtWithPadding that has reached its await *)
NewRequest(caller, locs, p) ==
  [caller |-> caller, locations |-> locs, padding |-> p, pc |-> "awaiting",
   settled |-> NoResponse, pose |-> NoPose]

(* frameEntities without its check for an empty list *)
frameEntitiesOfAnyList(reqs, entities, p) ==
  Append(reqs, NewRequest("frameEntities", entities, p))

(* MapController.frameEntities up to its await *)
frameEntities(reqs, entities, p) ==
  IF Len(entities) = 0 THEN reqs
  ELSE Append(reqs, NewRequest("frameEntities", entities, p))

(* the markers effect of AppComponent: without a MapController it does  *)
(* nothing; it frames the markers unless there are none or auto-framing  *)
(* is prevented                                                          *)
MarkersEffect(controller, reqs, ms, p, prevent) ==
  IF ~controller THEN reqs
  ELSE IF Len(ms) > 0 /\ ~prevent THEN frameEntities(reqs, ms, p) ELSE reqs

(* the MapController effect of AppComponent once the map and its         *)
(* libraries are there                                                   *)
MapControllerEffect ==
  /\ ~mapController
  /\ mapController' = TRUE
  /\ UNCHANGED <<layout, padding, markers, preventAutoFrame, cameraTarget,
                 requests, flights, targetEffectDue, toolReturn>>
  /\ UNCHANGED <<engineVars, cameraVars, toolVars>>

(* the sizes change and calculatePadding runs; setPadding stores a new   *)
(* array, so the markers effect runs again                               *)
Padded(l, p) ==
  /\ layout' = l
  /\ IF l.mounted
       THEN /\ padding' = p
            /\ requests' = MarkersEffect(mapController, requests, markers, p,
                                         preventAutoFrame)
       ELSE UNCHANGED <<padding, requests>>
  /\ UNCHANGED <<markers, preventAutoFrame, cameraTarget, flights,
                 mapController, targetEffectDue, toolReturn>>
  /\ UNCHANGED <<engineVars, cameraVars, toolVars>>

CalculatePadding ==
  /\ Len(requests) < MaxRequests
  /\ \E l \in AppLayouts : Padded(l, calculatePadding(l))

(* the camera target of the close-up on one marker *)
CloseUpTarget(position) ==
  [center |-> [lat |-> ToDegrees(Fin(position.lat)),
               lng |-> ToDegrees(Fin(position.lng)),
               altitude |-> 200 * AltOne],
   range |-> Fin(500),
   heading |-> 0,
   tilt |-> 60,
   roll |-> 0]

(* updateMapStateWithMarkers of the grounding tool, with the markers of  *)
(* the places it found, which may be none: a close-up on a single marker *)
(* with place answer sources, the markers alone otherwise                *)
UpdateMapStateWithMarkers ==
  /\ Len(requests) < MaxRequests
  /\ \E ms \in MarkerLists \cup {<<>>}, hasPlaceAnswerSources \in BOOLEAN :
       /\ markers' = ms
       /\ IF hasPlaceAnswerSources /\ Len(ms) = 1
            THEN /\ preventAutoFrame' = TRUE
                 /\ cameraTarget' = CloseUpTarget(ms[1])
                 /\ targetEffectDue' = TRUE
                 /\ requests' = MarkersEffect(mapController, requests, ms, padding, TRUE)
            ELSE /\ preventAutoFrame' = FALSE
                 /\ cameraTarget' = cameraTarget
                 /\ targetEffectDue' = targetEffectDue
                 /\ requests' = MarkersEffect(mapController, requests, ms, padding, FALSE)
  /\ UNCHANGED <<layout, padding, flights, mapController, toolReturn>>
  /\ UNCHANGED <<engineVars, cameraVars, toolVars>>

(* the frameLocations tool up to its return or its await: without a     *)
(* location it returns a message; with locations it sets markers and     *)
(* lets the markers effect frame them, or clears the markers and calls   *)
(* lookAtWithPadding itself with the padding of the tool context         *)
FrameLocations ==
  /\ Len(requests) < MaxRequests
  /\ \E locs \in MarkerLists \cup {<<>>}, shouldCreateMarkers \in BOOLEAN :
       IF Len(locs) = 0
         THEN /\ toolReturn' = "Could not find any valid locations to frame."
              /\ UNCHANGED <<preventAutoFrame, markers, requests>>
         ELSE IF shouldCreateMarkers
         THEN /\ preventAutoFrame' = FALSE
              /\ markers' = locs
              /\ requests' = MarkersEffect(mapController, requests, locs, padding, FALSE)
              /\ toolReturn' = "Framed and added markers for locations."
         ELSE /\ preventAutoFrame' = preventAutoFrame
              /\ markers' = <<>>
              /\ requests' = Append(MarkersEffect(mapController, requests, <<>>, padding,
                                                  preventAutoFrame),
                                    NewRequest("frameLocations", locs, padding))
              /\ toolReturn' = toolReturn
  /\ UNCHANGED <<layout, padding, cameraTarget, flights, mapController, targetEffectDue>>
  /\ UNCHANGED <<engineVars, cameraVars, toolVars>>

(* the arguments of the call started last, as a variable that all calls *)
(* share would hold them                                                 *)
ArgumentsOfLatest(reqs, i) ==
  [locations |-> reqs[Len(reqs)].locations, padding |-> reqs[Len(reqs)].padding]

(* the arguments of the i-th call, which are its own *)
Arguments(reqs, i) == [locations |-> reqs[i].locations, padding |-> reqs[i].padding]

(* a camera that looks straight down instead of at the tilt of the pose *)
CameraTopDown(cameraProps) ==
  [center |-> [lat |-> cameraProps.lat,
               lng |-> cameraProps.lng,
               altitude |-> cameraProps.altitude],
   range |-> FAdd(cameraProps.range, Fin(1000)),
   heading |-> cameraProps.heading,
   tilt |-> 0,
   roll |-> 0]

(* the camera both callers build from the pose of the engine *)
CameraOfPose(cameraProps) ==
  [center |-> [lat |-> cameraProps.lat,
               lng |-> cameraProps.lng,
               altitude |-> cameraProps.altitude],
   range |-> FAdd(cameraProps.range, Fin(1000)),
   heading |-> cameraProps.heading,
   tilt |-> cameraProps.tilt,
   roll |-> 0]

(* a flight whose end camera is given no range *)
flyToWithoutRange(cameraProps) ==
  [durationMillis |-> 5000,
   endCamera |-> [center |-> [lat |-> cameraProps.center.lat,
                              lng |-> cameraProps.center.lng,
                              altitude |-> cameraProps.center.altitude],
                  range |-> Fin(0),
                  heading |-> cameraProps.heading,
                  tilt |-> cameraProps.tilt,
                  roll |-> cameraProps.roll]]

(* MapController.flyTo: the argument of map.flyCameraTo *)
flyTo(cameraProps) ==
  [durationMillis |-> 5000,
   endCamera |-> [center |-> [lat |-> cameraProps.center.lat,
                              lng |-> cameraProps.center.lng,
                              altitude |-> cameraProps.center.altitude],
                  range |-> cameraProps.range,
                  heading |-> cameraProps.heading,
                  tilt |-> cameraProps.tilt,
                  roll |-> cameraProps.roll]]

(* the i-th call returns its pose and its caller goes on: frameEntities  *)
(* flies the camera, frameLocations sets the camera target               *)
Continued(i, r, cameraProps) ==
  /\ requests' = [requests EXCEPT ![i].pc = "returned",
                                   ![i].settled = r,
                                   ![i].pose = cameraProps]
  /\ IF requests[i].caller = "frameEntities"
       THEN /\ flights' = Append(flights, flyTo(CameraOfPose(cameraProps)))
            /\ UNCHANGED <<cameraTarget, targetEffectDue, toolReturn>>
       ELSE /\ flights' = flights
            /\ cameraTarget' = CameraOfPose(cameraProps)
            /\ targetEffectDue' = TRUE
            /\ toolReturn' = "Framed locations on the map."

Awaited(i, r, args, fetched) ==
  IF fetched.threw
    THEN /\ requests' = [requests EXCEPT ![i].pc = "rejected", ![i].settled = r]
         /\ UNCHANGED <<flights, cameraTarget, targetEffectDue, toolReturn>>
    ELSE Continued(i, r,
           lookAtWithPadding(args.locations, 0, EnginePadding(args.padding),
                             fetched.value).pose)

(* the elevation lookup of one of the calls in flight ends *)
RequestSettles ==
  /\ Len(flights) < MaxFlights
  /\ \E i \in 1..Len(requests), r \in ElevatorResponses :
       /\ requests[i].pc = "awaiting"
       /\ Awaited(i, r, Arguments(requests, i), fetchElevation(r))
  /\ UNCHANGED <<layout, padding, markers, preventAutoFrame, mapController>>
  /\ UNCHANGED <<engineVars, cameraVars, toolVars>>

(* the camera target of frameEstablishingShot *)
EstablishingTarget(position) ==
  [center |-> [lat |-> ToDegrees(Fin(position.lat)),
               lng |-> ToDegrees(Fin(position.lng)),
               altitude |-> 5000 * AltOne],
   range |-> Fin(15000),
   heading |-> 0,
   tilt |-> 10,
   roll |-> 0]

(* the frameEstablishingShot tool with numeric lat and lng *)
FrameEstablishingShot ==
  /\ \E position \in {PointPool[2]} :
       cameraTarget' = EstablishingTarget(position)
  /\ targetEffectDue' = TRUE
  /\ toolReturn' = "Set camera target to latitude and longitude."
  /\ UNCHANGED <<layout, padding, markers, preventAutoFrame, requests, flights,
                 mapController>>
  /\ UNCHANGED <<engineVars, cameraVars, toolVars>>

(* the camera target effect of AppComponent, which runs after            *)
(* cameraTarget has changed: with a target and a MapController it flies  *)
(* to the target and clears it, and allows auto-framing again, which     *)
(* runs the markers effect if it was prevented                           *)
CameraTargetEffect ==
  /\ targetEffectDue
  /\ Len(flights) < MaxFlights
  /\ preventAutoFrame => Len(requests) < MaxRequests
  /\ targetEffectDue' = FALSE
  /\ IF cameraTarget # NoTarget /\ mapController
       THEN /\ flights' = Append(flights, flyTo(cameraTarget))
            /\ cameraTarget' = NoTarget
            /\ preventAutoFrame' = FALSE
            /\ requests' = IF preventAutoFrame
                              THEN MarkersEffect(mapController, requests, markers,
                                                 padding, FALSE)
                              ELSE requests
       ELSE UNCHANGED <<flights, cameraTarget, preventAutoFrame, requests>>
  /\ UNCHANGED <<layout, padding, markers, mapController, toolReturn>>
  /\ UNCHANGED <<engineVars, cameraVars, toolVars>>

NextApp ==
  \/ MapControllerEffect
  \/ CalculatePadding
  \/ UpdateMapStateWithMarkers
  \/ FrameLocations
  \/ RequestSettles
  \/ CameraTargetEffect

SpecApp == Init /\ [][NextApp]_vars

----------------------------------------------------------------------------
(* The padding of the application for every size of the console panel:   *)
(* calculatePadding, and the markers effect that passes the padding to   *)
(* lookAtWithPadding through frameEntities                               *)

WidthSteps == 10

(* a window at the width of the media query and a wider one *)
ViewportWidths == {768, 1000}

(* console panels from width 0 to the width of the window, a control     *)
(* tray of 60 pixels, and the layout before the refs are attached        *)
Layouts ==
  {Layout(vw, 800, (k * vw) \div WidthSteps, 60, TRUE) :
     vw \in ViewportWidths, k \in 0..WidthSteps}
  \cup {InitialLayout}

Resize ==
  /\ Len(requests) < MaxRequests
  /\ \E l \in Layouts : Padded(l, calculatePadding(l))

NextPadding == MapControllerEffect \/ Resize \/ UpdateMapStateWithMarkers

(* the camera targets of the tools and their flights: the creation of    *)
(* the MapController, the tools that write cameraTarget, the camera      *)
(* target effect and the settling of the framing requests                *)
NextTarget ==
  \/ MapControllerEffect
  \/ FrameEstablishingShot
  \/ UpdateMapStateWithMarkers
  \/ CameraTargetEffect
  \/ RequestSettles

SpecTarget == Init /\ [][NextTarget]_vars

SpecPadding == Init /\ [][NextPadding]_vars

----------------------------------------------------------------------------
(* useMap3DCameraEvents with a map element and an onCameraChange         *)
(* callback: the listeners of the five camera events, and the microtask  *)
(* they queue.  A task runs a script that dispatches camera events one   *)
(* after the other; the microtasks run when the script has ended and     *)
(* before the next task starts.                                          *)

MaxEvents == 3

MaxCameraCalls == 2

cameraPropNames == {"center", "range", "heading", "tilt", "roll"}

Null == [kind |-> "null"]

(* a LatLngAltitude object, as the element returns it for its center *)
LatLngAltitude(lat, lng, altitude) ==
  [kind |-> "LatLngAltitude", lat |-> lat, lng |-> lng, altitude |-> altitude]

(* a number, as the element returns it for the other properties *)
Number(n) == [kind |-> "number", n |-> n]

toJSON(latLngAltitude) ==
  [lat |-> latLngAltitude.lat, lng |-> latLngAltitude.lng,
   altitude |-> latLngAltitude.altitude]

(* what mapEl[p] holds when the event of the property p is dispatched *)
ElementValues(p) ==
  IF p = "center"
    THEN {Null, LatLngAltitude(1, 1, 0), LatLngAltitude(2, 2, 100)}
    ELSE {Null, Number(1), Number(2)}

(* the assignment of the listener to cameraPropsRef.current *)
Assigned(ref, p, newValue) ==
  IF p = "center"
    THEN [ref EXCEPT !.center = toJSON(newValue)]
    ELSE [ref EXCEPT ![p] = newValue.n]

(* a microtask for every event, whether one is queued already or not *)
QueuedAlways(queued, queue) == Append(queue, "onCameraChange")

(* queueMicrotask unless an update is queued already *)
Queued(queued, queue) ==
  IF ~queued THEN Append(queue, "onCameraChange") ELSE queue

(* a task starts to run its script *)
StartTask ==
  /\ ~task.running
  /\ microtasks = <<>>
  /\ Len(cameraCalls) < MaxCameraCalls
  /\ task' = [running |-> TRUE, events |-> <<>>, callsBefore |-> Len(cameraCalls)]
  /\ UNCHANGED <<cameraPropsRef, updateQueued, microtasks, cameraCalls>>
  /\ UNCHANGED <<engineVars, appVars, toolVars>>

(* the listener of gmp-<p>change with newValue = mapEl[p] *)
Listener(p, newValue) ==
  IF newValue = Null
    THEN UNCHANGED <<cameraPropsRef, updateQueued, microtasks>>
    ELSE /\ cameraPropsRef' = Assigned(cameraPropsRef, p, newValue)
         /\ updateQueued' = TRUE
         /\ microtasks' = Queued(updateQueued, microtasks)

(* the script dispatches a camera event and its listener runs *)
DispatchEvent ==
  /\ task.running
  /\ Len(task.events) < MaxEvents
  /\ \E p \in cameraPropNames :
       \E newValue \in ElementValues(p) :
         /\ task' = [task EXCEPT !.events = Append(@, [name |-> p, value |-> newValue])]
         /\ Listener(p, newValue)
  /\ UNCHANGED cameraCalls
  /\ UNCHANGED <<engineVars, appVars, toolVars>>

(* the script ends *)
EndTask ==
  /\ task.running
  /\ task' = [task EXCEPT !.running = FALSE]
  /\ UNCHANGED <<cameraPropsRef, updateQueued, microtasks, cameraCalls>>
  /\ UNCHANGED <<engineVars, appVars, toolVars>>

(* the queued microtask runs: it calls onCameraChange with               *)
(* cameraPropsRef.current                                                *)
RunMicrotask ==
  /\ ~task.running
  /\ microtasks # <<>>
  /\ microtasks' = Tail(microtasks)
  /\ updateQueued' = FALSE
  /\ cameraCalls' = Append(cameraCalls, cameraPropsRef)
  /\ UNCHANGED <<cameraPropsRef, task>>
  /\ UNCHANGED <<engineVars, appVars, toolVars>>

NextCamera == StartTask \/ DispatchEvent \/ EndTask \/ RunMicrotask

SpecCamera == Init /\ [][NextCamera]_vars

----------------------------------------------------------------------------
(* onToolCall of the Live API context: the handler of the toolcall       *)
(* events.  A run goes on without interruption up to the await of a tool *)
(* or to its end; other runs and the settling of tools take their steps  *)
(* in between.                                                           *)

MaxToolCalls == 2

(* the names of toolRegistry *)
toolRegistry == {"mapsGrounding", "frameEstablishingShot", "frameLocations"}

FunctionCall(id, name) == [id |-> id, name |-> name]

(* the function calls of a toolcall event: none, one for a tool, one for *)
(* a name that is not in the registry, and two of either kind            *)
FunctionCallLists ==
  {<<>>,
   <<FunctionCall("a", "frameLocations")>>,
   <<FunctionCall("a", "noSuchTool")>>,
   <<FunctionCall("a", "mapsGrounding"), FunctionCall("b", "frameLocations")>>,
   <<FunctionCall("a", "noSuchTool"), FunctionCall("b", "frameEstablishingShot")>>,
   <<FunctionCall("a", "mapsGrounding"), FunctionCall("b", "noSuchTool")>>}

(* the entry of functionResponses for the function call fc *)
FunctionResponse(fc, toolResponse) ==
  [id |-> fc.id, name |-> fc.name, response |-> [result |-> toolResponse]]

(* a catch block that logs the error and pushes nothing *)
CaughtSilently(functionResponses, fc) == functionResponses

(* the catch block: the response that tells the model about the failure *)
Caught(functionResponses, fc) ==
  Append(functionResponses, FunctionResponse(fc, "Error executing tool."))

(* the end of the try block with the return value of the tool *)
Pushed(functionResponses, fc, toolResponse) ==
  Append(functionResponses, FunctionResponse(fc, toolResponse))

(* a run of onToolCall at the function call i of its event *)
Run(functionCalls, i, functionResponses, at) ==
  [functionCalls |-> functionCalls, i |-> i,
   functionResponses |-> functionResponses, pc |-> at]

(* the loop from the function call i on, up to the await of a tool or    *)
(* to the end of the loop: a name that is not in the registry is         *)
(* answered at once                                                      *)
RECURSIVE Loop(_, _, _)
Loop(functionCalls, i, functionResponses) ==
  IF i > Len(functionCalls)
    THEN Run(functionCalls, i, functionResponses, "send")
  ELSE IF functionCalls[i].name \in toolRegistry
    THEN Run(functionCalls, i, functionResponses, "awaiting")
  ELSE Loop(functionCalls, i + 1,
            Pushed(functionResponses, functionCalls[i], "Unknown tool called."))

(* the run k goes on from the state r to its next await or to its end,   *)
(* where it calls client.sendToolResponse, which returns or throws, and  *)
(* its finally block clears isAwaitingFunctionResponse                   *)
GoesOn(k, r, calls, sendThrows) ==
  IF r.pc = "send"
    THEN /\ sent' = Append(sent, [run |-> k, functionResponses |-> r.functionResponses])
         /\ toolCalls' = [calls EXCEPT ![k] =
                            [r EXCEPT !.pc = IF sendThrows THEN "rejected" ELSE "done"]]
         /\ isAwaitingFunctionResponse' = FALSE
    ELSE /\ sent' = sent
         /\ toolCalls' = [calls EXCEPT ![k] = r]
         /\ isAwaitingFunctionResponse' = isAwaitingFunctionResponse

(* a toolcall event: onToolCall sets isAwaitingFunctionResponse, which   *)
(* its finally block clears again if the run ends without an await       *)
Started(k, r, calls, sendThrows) ==
  IF r.pc = "send"
    THEN GoesOn(k, r, calls, sendThrows)
    ELSE /\ sent' = sent
         /\ toolCalls' = [calls EXCEPT ![k] = r]
         /\ isAwaitingFunctionResponse' = TRUE

ToolCallEvent ==
  /\ Len(toolCalls) < MaxToolCalls
  /\ \E functionCalls \in FunctionCallLists, sendThrows \in BOOLEAN :
       Started(Len(toolCalls) + 1, Loop(functionCalls, 1, <<>>),
               Append(toolCalls, Run(functionCalls, 1, <<>>, "start")), sendThrows)
  /\ UNCHANGED <<engineVars, appVars, cameraVars>>

(* the tool a run awaits returns *)
ToolReturns ==
  /\ \E k \in 1..Len(toolCalls), sendThrows \in BOOLEAN :
       /\ toolCalls[k].pc = "awaiting"
       /\ GoesOn(k,
                 Loop(toolCalls[k].functionCalls, toolCalls[k].i + 1,
                      Pushed(toolCalls[k].functionResponses,
                             toolCalls[k].functionCalls[toolCalls[k].i], "ok")),
                 toolCalls, sendThrows)
  /\ UNCHANGED <<engineVars, appVars, cameraVars>>

(* the tool a run awaits throws *)
ToolThrows ==
  /\ \E k \in 1..Len(toolCalls), sendThrows \in BOOLEAN :
       /\ toolCalls[k].pc = "awaiting"
       /\ GoesOn(k,
                 Loop(toolCalls[k].functionCalls, toolCalls[k].i + 1,
                      Caught(toolCalls[k].functionResponses,
                             toolCalls[k].functionCalls[toolCalls[k].i])),
                 toolCalls, sendThrows)
  /\ UNCHANGED <<engineVars, appVars, cameraVars>>

NextTools == ToolCallEvent \/ ToolReturns \/ ToolThrows

SpecTools == Init /\ [][NextTools]_vars

----------------------------------------------------------------------------
(* Properties *)

Done == pc = "done"

PaddedCall == call.fn = "lookAtWithPadding"

NonEmptyInput == Len(call.locations) > 0

(* the locals and the pose of a finished call that returned *)
Locals == frame.locals

Pose == result.pose

(* both visible fractions are positive *)
ValidPadding(pad) ==
  /\ PadLeft(pad) + PadRight(pad) < PadOne
  /\ PadTop(pad) + PadBottom(pad) < PadOne

LeftOnly(pad) ==
  /\ PadTop(pad) = 0
  /\ PadRight(pad) = 0
  /\ PadBottom(pad) = 0
  /\ 0 < PadLeft(pad)
  /\ PadLeft(pad) < PadOne

Symmetric(pad) ==
  /\ PadTop(pad) = PadBottom(pad)
  /\ PadLeft(pad) = PadRight(pad)

(* two of the locations differ in latitude or longitude *)
DistinctPoints(locations) ==
  \E i, j \in 1..Len(locations) :
    \/ locations[i].lat # locations[j].lat
    \/ locations[i].lng # locations[j].lng

(* the centre of the bounding box, in 1/DegOne degree *)
BoxCenterLat(locations) == ToDegrees(CenterLat(Box(locations)))

BoxCenterLng(locations) == ToDegrees(CenterLng(Box(locations)))

(* the elevation lookup threw, rejected or returned no result *)
ElevationFailed(response) ==
  \/ response.kind \in {"threw", "rejected"}
  \/ response.kind = "fulfilled" /\ (~response.hasResults \/ response.results = <<>>)

(* the range lookAtWithPadding computes for the locations with no padding *)
ZeroPaddingRange(locations, heading) ==
  PaddedFraming(locations, heading, NoPadding).slantRange

(* C1: lookAtWithPadding called with a padding whose visible fraction is *)
(* zero or negative on an axis fails with an InvalidPaddingError and     *)
(* returns no pose.                                                      *)
C1_InvalidPaddingFails ==
  (Done /\ PaddedCall /\ NonEmptyInput /\ ~ValidPadding(call.padding))
    => result = Rejected("InvalidPaddingError")

(* C2: a call with an empty list of points fails with an EmptyInputError *)
(* and returns no pose.                                                  *)
C2_EmptyInputFails ==
  (Done /\ ~NonEmptyInput) => result = Rejected("EmptyInputError")

(* C3: when the elevation lookup throws, rejects or returns no result,   *)
(* lookAtWithPadding still returns a pose; the elevation it uses is 0,   *)
(* and latitude, longitude, range, tilt and heading are those of the     *)
(* call with a lookup that succeeds.                                     *)
C3_ElevationFailureFallsBack ==
  (Done /\ PaddedCall /\ NonEmptyInput /\ ValidPadding(call.padding)
        /\ ElevationFailed(settled))
    => /\ result.kind = "pose"
       /\ frame.ALTITUDE = 0
       /\ Pose.altitude = LookAtAltitude(call.locations, 0)
       /\ \A e \in ElevationValues :
            LET ok == lookAtWithPadding(call.locations, call.heading, call.padding, e).pose
            IN /\ Pose.lat = ok.lat
               /\ Pose.lng = ok.lng
               /\ Pose.range = ok.range
               /\ Pose.tilt = ok.tilt
               /\ Pose.heading = ok.heading

C3_Witness ==
  /\ Done /\ PaddedCall
  /\ Len(call.locations) >= 2
  /\ call.padding = <<1, 1, 1, 7>>
  /\ settled.kind = "rejected"
  /\ result.kind = "pose"

(* C4: with padding [0,0,0,0] lookAtWithPadding computes scale 1 and     *)
(* offset (0,0) and returns the pose lookAt returns for the same         *)
(* locations, heading and elevation result.                              *)
C4_ZeroPaddingIsLookAt ==
  (Done /\ PaddedCall /\ NonEmptyInput /\ call.padding = NoPadding)
    => /\ result.kind = "pose"
       /\ Locals.scale = Fin(ScaleOne)
       /\ Locals.offsetX = Zero
       /\ Locals.offsetY = Zero
       /\ Pose = lookAt(call.locations, call.heading, frame.ALTITUDE).pose

C4_Witness ==
  /\ Done /\ PaddedCall
  /\ call.padding = NoPadding
  /\ DistinctPoints(call.locations)
  /\ call.heading = 90
  /\ result.kind = "pose"
  /\ frame.ALTITUDE > 0

(* C5: at heading 0 with only the left padding nonzero and at least two  *)
(* distinct points, the returned latitude is the latitude of the         *)
(* bounding-box centre and the returned longitude is smaller than the    *)
(* longitude of the bounding-box centre.                                 *)
C5_LeftPaddingShiftsWest ==
  (Done /\ PaddedCall /\ call.heading = 0 /\ LeftOnly(call.padding)
        /\ DistinctPoints(call.locations))
    => /\ result.kind = "pose"
       /\ Pose.lat = BoxCenterLat(call.locations)
       /\ FGt(BoxCenterLng(call.locations), Pose.lng)

C5_Witness ==
  /\ Done /\ PaddedCall
  /\ call.heading = 0
  /\ call.padding = <<0, 0, 0, 7>>
  /\ DistinctPoints(call.locations)
  /\ result.kind = "pose"
  /\ FGt(BoxCenterLng(call.locations), Pose.lng)

(* C6: with symmetric nonzero padding that leaves both visible fractions *)
(* positive and at least two distinct points, offsetX and offsetY are 0, *)
(* scale is above 1, the returned centre is the bounding-box centre and  *)
(* the returned range is larger than the range with zero padding.        *)
C6_SymmetricPaddingOnlyScales ==
  (Done /\ PaddedCall /\ Symmetric(call.padding) /\ call.padding # NoPadding
        /\ ValidPadding(call.padding) /\ DistinctPoints(call.locations))
    => /\ result.kind = "pose"
       /\ Locals.offsetX = Zero
       /\ Locals.offsetY = Zero
       /\ FGt(Locals.scale, Fin(ScaleOne))
       /\ Pose.lat = BoxCenterLat(call.locations)
       /\ Pose.lng = BoxCenterLng(call.locations)
       /\ FGt(Pose.range, ZeroPaddingRange(call.locations, call.heading))

C6_Witness ==
  /\ Done /\ PaddedCall
  /\ call.padding = <<1, 1, 1, 1>>
  /\ DistinctPoints(call.locations)
  /\ result.kind = "pose"
  /\ FGt(Pose.range, ZeroPaddingRange(call.locations, call.heading))

(* the displacement of the returned centre from the bounding-box centre *)
Displacement(l) ==
  [east |-> l.shiftEastMeters,
   north |-> l.shiftNorthMeters,
   lat |-> FSub(l.newCenterLat, l.centerLat),
   lng |-> FSub(l.newCenterLng, l.centerLng)]

Asymmetric(pad) == ~Symmetric(pad)

(* b is the negation of a *)
Negated(a, b) == b = FNeg(a)

(* b is the negation of a, or a is 0 and b is a rounding residue *)
NegatedUpToResidue(a, b) ==
  \/ Negated(a, b)
  \/ a = Zero /\ IsFinite(b) /\ b.ord >= 1

(* the locals of the finished call, had its heading been 180 *)
LocalsAt180 == PaddedFraming(call.locations, 180, call.padding)

AtHeading0 ==
  /\ Done /\ PaddedCall /\ NonEmptyInput
  /\ call.heading = 0
  /\ Asymmetric(call.padding)
  /\ ValidPadding(call.padding)

BoxCorners ==
  <<Location(4, 4), Location(-4, -4), Location(4, -4), Location(-4, 4)>>

DesktopPadding == <<1, 1, 1, 7>>

(* C8: for the four corners of the 1 degree box centred at (0,0),        *)
(* padding [0.05, 0.05, 0.05, 0.35] and heading 0, the returned          *)
(* longitude is negative, the latitude is 0 and the range is larger than *)
(* the range with padding [0,0,0,0].                                     *)
C8_DesktopPaddingScenario ==
  (Done /\ PaddedCall /\ call.locations = BoxCorners
        /\ call.padding = DesktopPadding /\ call.heading = 0)
    => /\ result.kind = "pose"
       /\ FGt(Zero, Pose.lng)
       /\ Pose.lat = Zero
       /\ FGt(Pose.range, ZeroPaddingRange(BoxCorners, 0))

C8_Witness ==
  /\ Done /\ PaddedCall
  /\ call.locations = BoxCorners
  /\ call.padding = DesktopPadding
  /\ call.heading = 0
  /\ result.kind = "pose"
  /\ IsFinite(Pose.lng)
  /\ Pose.lng.v < 0

(* C9: for a single point with zero padding the returned centre is the   *)
(* point, the angular extent is 0 and the range is finite and 0.         *)
C9_SinglePoint ==
  (Done /\ PaddedCall /\ Len(call.locations) = 1 /\ call.padding = NoPadding)
    => /\ result.kind = "pose"
       /\ Pose.lat = ToDegrees(Fin(call.locations[1].lat))
       /\ Pose.lng = ToDegrees(Fin(call.locations[1].lng))
       /\ Locals.maxAngularDistance = Zero
       /\ IsFinite(Pose.range)
       /\ Pose.range = Zero

C9_Witness ==
  /\ Done /\ PaddedCall
  /\ Len(call.locations) = 1
  /\ call.locations[1].lat # 0
  /\ call.padding = NoPadding
  /\ result.kind = "pose"
  /\ Pose.range = Zero

(* C10: a lookAtWithPadding call sends at most one request to the        *)
(* elevation service, for the coordinates of the first point; it is      *)
(* suspended only while that lookup is pending, and it returns a pose    *)
(* only after the lookup has settled.                                    *)
C10_OneElevationLookup ==
  PaddedCall
    => /\ Len(elevRequests) <= 1
       /\ NonEmptyInput =>
            elevRequests = <<[lat |-> call.locations[1].lat,
                              lng |-> call.locations[1].lng]>>
       /\ pc = "awaiting" => settled = NoResponse /\ result = NoResult
       /\ result.kind = "pose" => settled # NoResponse

C10_Witness ==
  /\ Done /\ PaddedCall
  /\ Len(call.locations) >= 3
  /\ Len(elevRequests) = 1
  /\ settled.kind = "fulfilled"
  /\ result.kind = "pose"

(* C11: every pose lookAt or lookAtWithPadding returns has tilt 60 and   *)
(* the heading that was passed in, 0 when the heading was omitted, for   *)
(* every list of points, padding and outcome of the elevation lookup.    *)
C11_TiltAndHeading ==
  (Done /\ result.kind = "pose") =>
    /\ Pose.tilt = 60
    /\ Pose.heading = (IF call.headingArg = <<>> THEN 0 ELSE call.headingArg[1])

(* a padded call that omitted the heading and whose elevation lookup    *)
(* failed has returned its pose                                          *)
C11_Witness ==
  /\ Done /\ PaddedCall
  /\ result.kind = "pose"
  /\ call.headingArg = <<>>
  /\ call.padding # NoPadding
  /\ ElevationFailed(settled)

(* each side of the padding is in [0, 1) and both visible fractions are  *)
(* positive                                                              *)
PaddingInvariant(pad) ==
  /\ \A i \in 1..4 : 0 <= pad[i] /\ pad[i] < PadOne
  /\ ValidPadding(pad)

(* the content diameter of the finished call, in metres *)
ContentDiameter == ContentHorizontalDistance(Locals.maxAngularDistance)

(* the ground the visible part of the viewport spans on each axis *)
VisibleSpanWidth ==
  FMul(Locals.fullHorizontalDistance, VisibleWidthFraction(call.padding), PadOne)

VisibleSpanHeight ==
  FMul(Locals.fullHorizontalDistance, VisibleHeightFraction(call.padding), PadOne)

(* what the rounding of the scale to 1/ScaleOne and of the distances to  *)
(* a metre can take from a span of the diameter d                        *)
SpanRounding(d) == d.v \div ScaleOne + 2

(* a >= b and a = b up to the rounding of the span, for distances of    *)
(* the same order of magnitude                                           *)
AtLeastRounded(a, b) ==
  /\ IsFinite(a) /\ IsFinite(b)
  /\ a.ord = b.ord
  /\ a.v + SpanRounding(b) >= b.v

EqualRounded(a, b) ==
  /\ AtLeastRounded(a, b)
  /\ a.v - SpanRounding(b) <= b.v

(* 1 / (1 - a - b) in 1/ScaleOne, for sides a and b in 1/PadOne *)
InverseVisible(a, b) == (ScaleOne * PadOne) \div (PadOne - a - b)

(* C12: for a padding with every side in [0,1) and positive visible      *)
(* fractions, scale is max(1/(1-left-right), 1/(1-top-bottom)) and at    *)
(* least 1, and the visible part of the viewport spans on each axis at   *)
(* least the content diameter, exactly the diameter on the more occluded *)
(* axis (the spans compared up to the rounding of the arithmetic).       *)
C12_VisibleRegionContainsContent ==
  (Done /\ PaddedCall /\ NonEmptyInput /\ PaddingInvariant(call.padding)) =>
    /\ result.kind = "pose"
    /\ Locals.scale = Fin(IF InverseVisible(PadLeft(call.padding), PadRight(call.padding))
                             >= InverseVisible(PadTop(call.padding), PadBottom(call.padding))
                          THEN InverseVisible(PadLeft(call.padding), PadRight(call.padding))
                          ELSE InverseVisible(PadTop(call.padding), PadBottom(call.padding)))
    /\ Locals.scale.v >= ScaleOne
    /\ AtLeastRounded(VisibleSpanWidth, ContentDiameter)
    /\ AtLeastRounded(VisibleSpanHeight, ContentDiameter)
    /\ IF PadLeft(call.padding) + PadRight(call.padding)
            >= PadTop(call.padding) + PadBottom(call.padding)
         THEN EqualRounded(VisibleSpanWidth, ContentDiameter)
         ELSE EqualRounded(VisibleSpanHeight, ContentDiameter)

(* a call with the box corners and padding [0.05, 0.05, 0.05, 0.35] has  *)
(* returned: the width is the more occluded axis, the height spans more  *)
(* than the diameter                                                     *)
C12_Witness ==
  /\ Done /\ PaddedCall
  /\ result.kind = "pose"
  /\ call.padding = <<1, 1, 1, 7>>
  /\ DistinctPoints(call.locations)
  /\ ContentDiameter.v > 1000
  /\ VisibleSpanHeight.v > ContentDiameter.v + SpanRounding(ContentDiameter)

(* the sum of the alt properties of the locations from the i-th on, a    *)
(* missing one counted as 0                                              *)
RECURSIVE OffsetSum(_, _)
OffsetSum(locations, i) ==
  IF i > Len(locations) THEN 0
  ELSE (IF locations[i].hasAlt THEN locations[i].alt ELSE 0) + OffsetSum(locations, i + 1)

(* the elevation sample of the call: the first result of the lookup, 0   *)
(* when the lookup failed                                                *)
ElevationSample == IF ElevationFailed(settled) THEN 0 ELSE settled.results[1]

(* C13: the altitude of the returned pose is E plus the mean of the alt  *)
(* properties of the points (a missing one counts as 0), E being the one *)
(* elevation sample, taken at the first point, 0 when the lookup failed; *)
(* no elevation of another point is asked for.                           *)
C13_AltitudeIsSamplePlusMeanOffset ==
  (Done /\ result.kind = "pose") =>
    /\ Pose.altitude = ElevationSample * AltOne
                         + (OffsetSum(call.locations, 1) * AltOne) \div Len(call.locations)
    /\ elevRequests = <<[lat |-> call.locations[1].lat, lng |-> call.locations[1].lng]>>

(* a padded call with three locations of which only the last has an alt *)
(* property, and an elevation of 250 m at the first, has returned the   *)
(* altitude 254 m                                                        *)
C13_Witness ==
  /\ Done /\ PaddedCall
  /\ result.kind = "pose"
  /\ Len(call.locations) = 3
  /\ ~call.locations[1].hasAlt
  /\ call.locations[3].hasAlt
  /\ ~ElevationFailed(settled)
  /\ Pose.altitude = 254 * AltOne

(* the smallest and the largest of a non-empty set of integers *)
Least(S) == CHOOSE x \in S : \A y \in S : x <= y

Greatest(S) == CHOOSE x \in S : \A y \in S : x >= y

Lats(locations) == {locations[i].lat : i \in 1..Len(locations)}

Lngs(locations) == {locations[i].lng : i \in 1..Len(locations)}

(* (least + greatest) / 2 of angles in eighths of a degree, in 1/DegOne  *)
(* degree                                                                *)
MidDegrees(S) == Fin(((Least(S) + Greatest(S)) * (DegOne \div AngPerDeg)) \div 2)

(* the haversine distance from the centre of the finished call to its    *)
(* i-th location                                                         *)
DistanceFromCenter(i) ==
  haversine((Least(Lats(call.locations)) + Greatest(Lats(call.locations))) \div 2,
            (Least(Lngs(call.locations)) + Greatest(Lngs(call.locations))) \div 2,
            call.locations[i].lat, call.locations[i].lng)

(* a is a number and a <= b *)
AtMost(a, b) == ~IsNaN(a) /\ ~IsNaN(b) /\ ~FGt(a, b)

(* C14: for a non-empty list the centre is ((minLat + maxLat) / 2,       *)
(* (minLng + maxLng) / 2) and the angular extent is the largest of the   *)
(* haversine distances from the centre to the points: no point is        *)
(* farther than the extent, one is at the extent, the extent is not      *)
(* negative and it is 0 when all points coincide.                        *)
C14_CenterAndExtent ==
  (Done /\ PaddedCall /\ NonEmptyInput) =>
    /\ result.kind = "pose"
    /\ Locals.centerLat = MidDegrees(Lats(call.locations))
    /\ Locals.centerLng = MidDegrees(Lngs(call.locations))
    /\ \A i \in 1..Len(call.locations) :
         AtMost(DistanceFromCenter(i), Locals.maxAngularDistance)
    /\ \E i \in 1..Len(call.locations) :
         DistanceFromCenter(i) = Locals.maxAngularDistance
    /\ AtMost(Zero, Locals.maxAngularDistance)
    /\ ~DistinctPoints(call.locations) => Locals.maxAngularDistance = Zero

(* the pose a call of lookAtWithPadding by the application returns when  *)
(* it runs alone with the arguments and the elevation response of req    *)
PoseAlone(req) ==
  lookAtWithPadding(req.locations, 0, EnginePadding(req.padding),
                    IF ElevationFailed(req.settled) THEN 0 ELSE req.settled.results[1]).pose

(* C15: with several calls of lookAtWithPadding in flight whose          *)
(* elevation lookups settle in any order, every call returns the pose it *)
(* returns when run alone with its own points, heading, padding and      *)
(* elevation result.                                                     *)
C15_CallsAreIndependent ==
  \A i \in 1..Len(requests) :
    requests[i].pc # "awaiting" =>
      /\ requests[i].pc = "returned"
      /\ requests[i].pose = PoseAlone(requests[i])

(* two calls with different points, paddings and elevation results were *)
(* in flight together and the one started last returned first           *)
C15_Witness ==
  /\ Len(requests) = 2
  /\ requests[1].pc = "returned" /\ requests[2].pc = "returned"
  /\ requests[1].caller = "frameEntities" /\ requests[2].caller = "frameEntities"
  /\ requests[1].locations # requests[2].locations
  /\ requests[1].padding # requests[2].padding
  /\ ElevationFailed(requests[1].settled) /\ ~ElevationFailed(requests[2].settled)
  /\ Len(flights) = 2
  /\ flights[1] = flyTo(CameraOfPose(requests[2].pose))
  /\ flights[1] # flights[2]

Last(seq) == seq[Len(seq)]

(* camera has roll 0 and the centre, heading and tilt of pose *)
PassesThrough(pose, camera) ==
  /\ camera.roll = 0
  /\ camera.center = [lat |-> pose.lat, lng |-> pose.lng, altitude |-> pose.altitude]
  /\ camera.heading = pose.heading
  /\ camera.tilt = pose.tilt

(* C16: the camera flight frameEntities issues and the camera target     *)
(* frameLocations sets for the pose the engine returned have roll 0 and  *)
(* the centre (lat, lng, altitude), heading and tilt of that pose; the   *)
(* flight to a camera target has them too.                               *)
C16_CallersPassPoseThrough ==
  [][/\ \A i \in 1..Len(requests) :
          (requests[i].pc = "awaiting" /\ requests'[i].pc = "returned") =>
            IF requests[i].caller = "frameEntities"
              THEN /\ Len(flights') = Len(flights) + 1
                   /\ PassesThrough(requests'[i].pose, Last(flights').endCamera)
              ELSE PassesThrough(requests'[i].pose, cameraTarget')
      /\ (cameraTarget # NoTarget /\ cameraTarget' = NoTarget) =>
            /\ Len(flights') = Len(flights) + 1
            /\ Last(flights').endCamera = cameraTarget]_vars

(* frameEntities has flown to the pose of its call and the application   *)
(* has flown to the camera target that frameLocations set for the pose   *)
(* of its call                                                           *)
C16_Witness ==
  /\ Len(requests) = 2
  /\ requests[1].caller = "frameEntities" /\ requests[1].pc = "returned"
  /\ requests[2].caller = "frameLocations" /\ requests[2].pc = "returned"
  /\ Len(requests[1].locations) > 1
  /\ cameraTarget = NoTarget
  /\ Len(flights) = 2
  /\ PassesThrough(requests[1].pose, flights[1].endCamera)
  /\ PassesThrough(requests[2].pose, flights[2].endCamera)
  /\ flights[1].endCamera.center.lng # flights[2].endCamera.center.lng

(* the Padding invariant for a padding in 1/FracOne: every side in       *)
(* [0, 1), top + bottom < 1 and left + right < 1                         *)
AppPaddingInvariant(p) ==
  /\ \A i \in 1..4 : 0 <= p[i] /\ p[i] < FracOne
  /\ p[1] + p[3] < FracOne
  /\ p[2] + p[4] < FracOne

(* C17: every padding the application computes, for a console panel of   *)
(* any width from 0 to the width of the window, and passes to            *)
(* lookAtWithPadding satisfies the Padding invariant.                    *)
C17_AppPaddingIsValid ==
  \A i \in 1..Len(requests) : AppPaddingInvariant(requests[i].padding)

(* the window is wider than 768 pixels *)
Desktop == layout.vw > 768

(* consoleWidth / viewportWidth + 0.02 and trayHeight / viewportHeight   *)
(* + 0.02 of the layout, in 1/FracOne                                    *)
ConsoleFraction == (layout.consoleWidth * 1000) \div layout.vw + 20

TrayFraction == (layout.trayHeight * 1000) \div layout.vh + 20

Valued == {k \in 1..Len(task.events) : task.events[k].value # Null}

(* the last event of the task for the property p that carried a value *)
LatestEvent(p) ==
  CHOOSE k \in Valued :
    /\ task.events[k].name = p
    /\ \A j \in Valued : task.events[j].name = p => j <= k

(* the properties the events of the task changed *)
ChangedProps == {task.events[k].name : k \in Valued}

(* the value of an event as onCameraChange receives it *)
Received(p, value) ==
  IF p = "center"
    THEN [lat |-> value.lat, lng |-> value.lng, altitude |-> value.altitude]
    ELSE value.n

(* the calls of onCameraChange made since the task started *)
CallsOfTask == Len(cameraCalls) - task.callsBefore

(* C19: the camera change events a script dispatches in one task make    *)
(* exactly one call of onCameraChange; the call is made after all the    *)
(* events were handled and carries the latest value of every property    *)
(* that changed; the events of a later task make a new single call.      *)
(* (Events whose property is null carry no value and count for nothing.) *)
C19_OneCallPerBatch ==
  /\ task.running => CallsOfTask = 0
  /\ (~task.running /\ microtasks = <<>>) =>
        IF Valued = {}
          THEN CallsOfTask = 0
          ELSE /\ CallsOfTask = 1
               /\ \A p \in ChangedProps :
                    Last(cameraCalls)[p] =
                      Received(p, task.events[LatestEvent(p)].value)

(* the second task has dispatched three events with values, two of them *)
(* for the range, and its one call of onCameraChange has been made      *)
C19_Witness ==
  /\ ~task.running /\ microtasks = <<>>
  /\ task.callsBefore = 1
  /\ Len(cameraCalls) = 2
  /\ Len(task.events) = 3
  /\ Valued = {1, 2, 3}
  /\ task.events[1].name = "range" /\ task.events[3].name = "range"
  /\ task.events[1].value # task.events[3].value
  /\ task.events[2].name = "center"
  /\ cameraCalls[2].range = task.events[3].value.n

(* every request is a call of frameEntities that has returned, and the *)
(* flights are the flights of these calls                               *)
FramingSettled ==
  /\ Len(requests) >= 2
  /\ \A i \in 1..Len(requests) :
       requests[i].caller = "frameEntities" /\ requests[i].pc = "returned"
  /\ Len(flights) = Len(requests)

(* C20: when the markers or the padding change while an earlier framing  *)
(* request awaits its elevation lookup, then after the lookups of both   *)
(* requests have settled, in either order, the last camera flight issued *)
(* is the flight for the newest request.                                 *)
C20_LastFlightIsNewest ==
  FramingSettled =>
    Last(flights) = flyTo(CameraOfPose(Last(requests).pose))

(* the close-up of updateMapStateWithMarkers is pending: auto-framing is *)
(* prevented and the camera target is the close-up on the one marker     *)
CloseUpPending ==
  /\ preventAutoFrame
  /\ Len(markers) = 1
  /\ cameraTarget = CloseUpTarget(markers[1])

(* C21: after the close-up branch of updateMapStateWithMarkers the       *)
(* application flies to the close-up target and starts no framing of the *)
(* marker by frameEntities, also not in the step in which the camera     *)
(* target effect resets preventAutoFrame to false.                       *)
C21_CloseUpIsNotFramed ==
  [][(CloseUpPending /\ cameraTarget' = NoTarget) =>
       /\ Last(flights') = flyTo(CloseUpTarget(markers[1]))
       /\ requests' = requests]_vars

(* C22: no caller calls lookAtWithPadding with an empty list of points:  *)
(* every call started has at least one point; frameEntities with no      *)
(* entities starts no elevation lookup and no flight; the markers effect *)
(* starts no framing when the markers become empty; and frameLocations   *)
(* without a resolved location returns its message and leaves the map    *)
(* store, the calls and the flights as they are.                         *)
C22_NoEmptyPointList ==
  [][/\ \A i \in 1..Len(requests') : Len(requests'[i].locations) >= 1
     /\ frameEntities(requests, <<>>, padding) = requests
     /\ Len(markers') = 0 =>
          \A i \in 1..Len(requests') :
            i > Len(requests) => requests'[i].caller = "frameLocations"
     /\ toolReturn' # toolReturn
          /\ toolReturn' = "Could not find any valid locations to frame." =>
            UNCHANGED <<markers, preventAutoFrame, cameraTarget, requests, flights>>]_vars

(* frameLocations has returned its message for no location while the    *)
(* store holds markers that a call of frameEntities is framing           *)
C22_Witness ==
  /\ mapController
  /\ toolReturn = "Could not find any valid locations to frame."
  /\ Len(markers) >= 2
  /\ Len(requests) = 1
  /\ requests[1].caller = "frameEntities"
  /\ Len(requests[1].locations) = Len(markers)

TopOnly(pad) ==
  /\ PadRight(pad) = 0
  /\ PadBottom(pad) = 0
  /\ PadLeft(pad) = 0
  /\ 0 < PadTop(pad)
  /\ PadTop(pad) < PadOne

BottomOnly(pad) ==
  /\ PadTop(pad) = 0
  /\ PadRight(pad) = 0
  /\ PadLeft(pad) = 0
  /\ 0 < PadBottom(pad)
  /\ PadBottom(pad) < PadOne

(* a finished call of lookAtWithPadding at heading 0 for at least two *)
(* distinct points                                                     *)
FramedAtHeading0 ==
  /\ Done /\ PaddedCall
  /\ call.heading = 0
  /\ DistinctPoints(call.locations)

(* C23, as stated: at heading 0 with at least two distinct points, with  *)
(* only the top padding nonzero the returned longitude is the longitude  *)
(* of the bounding-box centre and the returned latitude is larger than   *)
(* the latitude of the bounding-box centre; with only the bottom padding *)
(* nonzero the latitude is smaller.                                      *)
C23_TopPaddingShiftsNorth ==
  /\ (FramedAtHeading0 /\ TopOnly(call.padding))
       => /\ result.kind = "pose"
          /\ Pose.lng = BoxCenterLng(call.locations)
          /\ FGt(Pose.lat, BoxCenterLat(call.locations))
  /\ (FramedAtHeading0 /\ BottomOnly(call.padding))
       => /\ result.kind = "pose"
          /\ Pose.lng = BoxCenterLng(call.locations)
          /\ FGt(BoxCenterLat(call.locations), Pose.lat)

(* the extent of the points is more than a rounding residue *)
ExtentAboveRounding == IsFinite(Locals.maxAngularDistance) /\ Locals.maxAngularDistance.ord = 0

(* C23, amended: at heading 0 with at least two distinct points and only *)
(* the top padding nonzero, the returned longitude is the longitude of   *)
(* the bounding-box centre and the returned latitude is larger than the  *)
(* latitude of the centre when the extent of the points is more than a   *)
(* rounding residue, and is the latitude of the centre when it is not    *)
(* (points that differ only in longitude at a pole); with only the       *)
(* bottom padding nonzero the latitude is smaller in the first case.     *)
C23_ShiftsNorthUnlessAbsorbed ==
  /\ (FramedAtHeading0 /\ TopOnly(call.padding))
       => /\ result.kind = "pose"
          /\ Pose.lng = BoxCenterLng(call.locations)
          /\ IF ExtentAboveRounding
               THEN FGt(Pose.lat, BoxCenterLat(call.locations))
               ELSE Pose.lat = BoxCenterLat(call.locations)
  /\ (FramedAtHeading0 /\ BottomOnly(call.padding))
       => /\ result.kind = "pose"
          /\ Pose.lng = BoxCenterLng(call.locations)
          /\ IF ExtentAboveRounding
               THEN FGt(BoxCenterLat(call.locations), Pose.lat)
               ELSE Pose.lat = BoxCenterLat(call.locations)

(* a call with only the top padding for the corners of the box has      *)
(* returned a latitude north of the centre                               *)
C23_Witness ==
  /\ FramedAtHeading0
  /\ TopOnly(call.padding)
  /\ call.locations = SubSeq(PointPool, 1, 4)
  /\ result.kind = "pose"
  /\ ExtentAboveRounding
  /\ FGt(Pose.lat, BoxCenterLat(call.locations))
  /\ Pose.lng = BoxCenterLng(call.locations)

(* the length of the shift vector of the locals l, in metres *)
Magnitude(l) == FHypot(l.shiftEastMeters, l.shiftNorthMeters)

(* the locals of the finished call, had its heading been 0 *)
LocalsAt0 == PaddedFraming(call.locations, 0, call.padding)

(* only the left and right paddings are nonzero, and they differ *)
ScreenXOnly(pad) ==
  /\ PadTop(pad) = 0
  /\ PadBottom(pad) = 0
  /\ PadLeft(pad) # PadRight(pad)

Framed ==
  /\ Done /\ PaddedCall /\ NonEmptyInput
  /\ ValidPadding(call.padding)

(* a is 0 or a rounding residue *)
ZeroUpToResidue(a) == a = Zero \/ (IsFinite(a) /\ a.ord >= 1)

(* C24, as stated: for fixed points and padding the metric shift has the *)
(* same magnitude at headings 0, 90, 180 and 270, and at heading 90 a    *)
(* shift along screen x alone (left and right padding only) is a shift   *)
(* along north/south alone, with shiftEast = 0.                          *)
C24_RotationExact ==
  Framed =>
    /\ result.kind = "pose"
    /\ Magnitude(Locals) = Magnitude(LocalsAt0)
    /\ (call.heading = 90 /\ ScreenXOnly(call.padding)) =>
         Locals.shiftEastMeters = Zero

(* C24, amended: the magnitude of the metric shift is the same at        *)
(* headings 0, 90, 180 and 270 up to floating-point rounding; at heading *)
(* 90 a shift along screen x alone becomes a north/south shift of the    *)
(* same size (shiftNorth is the screen x component), and shiftEast is 0  *)
(* or a rounding residue, because the cosine of 90 degrees is not 0 in a *)
(* double; when the points have an extent shiftEast is the residue.      *)
C24_RotationUpToResidue ==
  Framed =>
    /\ result.kind = "pose"
    /\ Magnitude(Locals) = Magnitude(LocalsAt0)
    /\ (call.heading = 90 /\ ScreenXOnly(call.padding)) =>
         /\ ZeroUpToResidue(Locals.shiftEastMeters)
         /\ Locals.shiftNorthMeters = LocalsAt0.shiftEastMeters
         /\ DistinctPoints(call.locations) => Locals.shiftEastMeters # Zero

(* a call at heading 90 with only the left padding for the corners of   *)
(* the box: the shift points south and its east component is a residue  *)
C24_Witness ==
  /\ Framed
  /\ call.heading = 90
  /\ call.padding = <<0, 0, 0, 7>>
  /\ call.locations = SubSeq(PointPool, 1, 4)
  /\ result.kind = "pose"
  /\ FSign(Locals.shiftNorthMeters) = Neg(1)
  /\ Locals.shiftEastMeters # Zero
  /\ Locals.shiftEastMeters.ord >= 1
  /\ Magnitude(Locals) = Magnitude(LocalsAt0)

(* valid paddings to compare the padding of a call with *)
ComparedPaddings == {NoPadding, <<1, 1, 1, 1>>, <<0, 0, 0, 7>>, <<1, 10, 0, 7>>}

(* range / fullHorizontalDistance is 2 / sqrt(3) = 1.1547, the square  *)
(* root of 1 + 1 / tan(60 degrees)^2, to a thousandth                   *)
RangeRatioHolds(l) ==
  /\ (l.fullHorizontalDistance.v \div 1000) * 1153 <= l.slantRange.v
  /\ l.slantRange.v <= (l.fullHorizontalDistance.v \div 1000 + 1) * 1156

(* C25: range^2 = fullHorizontalDistance^2 + verticalDistance^2 with     *)
(* verticalDistance = fullHorizontalDistance / tan(60 degrees): the      *)
(* range is never smaller than fullHorizontalDistance, it is 0 exactly   *)
(* when the angular extent is 0, and for a nonzero extent a padding with *)
(* a larger scale factor gives a larger range.                           *)
C25_RangeFromHorizontalDistance ==
  Framed =>
    /\ result.kind = "pose"
    /\ Pose.range = Locals.slantRange
    /\ Locals.slantRange =
         FHypot(Locals.fullHorizontalDistance,
                FDiv(Locals.fullHorizontalDistance, Tan(Deg(60)), TrigOne))
    /\ IsFinite(Pose.range)
    /\ ~FGt(Locals.fullHorizontalDistance, Pose.range)
    /\ (Pose.range = Zero) <=> (Locals.maxAngularDistance = Zero)
    /\ Locals.maxAngularDistance # Zero =>
         /\ Pose.range.ord = Locals.fullHorizontalDistance.ord
         /\ RangeRatioHolds(Locals)
         /\ \A other \in ComparedPaddings :
              LET l == PaddedFraming(call.locations, call.heading, other)
              IN /\ FGt(l.scale, Locals.scale) => FGt(l.slantRange, Locals.slantRange)
                 /\ l.scale = Locals.scale => l.slantRange = Locals.slantRange

(* a call for the corners of the box whose padding has a larger scale   *)
(* than the uniform padding of 5 percent: its range is above its full   *)
(* horizontal distance and above the range with the smaller scale       *)
C25_Witness ==
  /\ Framed
  /\ call.padding = <<1, 10, 0, 7>>
  /\ call.locations = SubSeq(PointPool, 1, 4)
  /\ result.kind = "pose"
  /\ FGt(Pose.range, Locals.fullHorizontalDistance)
  /\ FGt(Locals.scale,
         PaddedFraming(call.locations, call.heading, <<1, 1, 1, 1>>).scale)
  /\ FGt(Pose.range,
         PaddedFraming(call.locations, call.heading, <<1, 1, 1, 1>>).slantRange)

(* the divisor of the conversion of the east shift to degrees:           *)
(* 111000 * Math.cos(centerLat * degToRad)                               *)
EastDivisor(locations) ==
  FMul(Fin(MetersPerDegree), Cos(CenterLat(Box(locations)).v), TrigOne)

(* the bounding-box centre of the points of the call is at a pole *)
CentreAtPole == Abs(CenterLat(Box(call.locations)).v) = Deg(90)

(* C26: for every non-empty list of points with latitudes in [-90, 90],  *)
(* every valid padding and every heading, the conversion of the east     *)
(* shift to degrees does not divide by zero and the returned latitude    *)
(* and longitude are finite numbers, also when the latitude of the       *)
(* bounding-box centre is +90 or -90.                                    *)
C26_CentreIsFinite ==
  Framed =>
    /\ result.kind = "pose"
    /\ IsFinite(EastDivisor(call.locations))
    /\ EastDivisor(call.locations) # Zero
    /\ IsFinite(Pose.lat)
    /\ IsFinite(Pose.lng)

(* a call for two points at the south pole at heading 0 with a left     *)
(* padding: the divisor is a rounding residue and the returned          *)
(* longitude is a finite number west of the centre                      *)
C26_Witness ==
  /\ Framed
  /\ CentreAtPole
  /\ call.locations[1].lat = Neg(Deg(90))
  /\ Len(call.locations) = 2
  /\ call.heading = 0
  /\ call.padding = <<0, 0, 0, 7>>
  /\ result.kind = "pose"
  /\ EastDivisor(call.locations).ord >= 1
  /\ IsFinite(Pose.lng)
  /\ FGt(BoxCenterLng(call.locations), Pose.lng)

(* the run k of onToolCall is over *)
Over(k) == toolCalls[k].pc \in {"done", "rejected"}

(* the calls of client.sendToolResponse the run k has made *)
SentBy(k) == {n \in 1..Len(sent) : sent[n].run = k}

(* C27: for every toolcall event onToolCall calls client.sendToolResponse *)
(* exactly once, after all function calls of the event were executed,    *)
(* with exactly one functionResponse per function call, in the order of  *)
(* the calls, each with the id and the name of its call; also when a     *)
(* tool name is unknown or a tool throws.                                *)
C27_OneResponsePerToolCall ==
  \A k \in 1..Len(toolCalls) :
    IF Over(k)
      THEN /\ Cardinality(SentBy(k)) = 1
           /\ \A n \in SentBy(k) :
                /\ Len(sent[n].functionResponses) = Len(toolCalls[k].functionCalls)
                /\ \A j \in 1..Len(toolCalls[k].functionCalls) :
                     /\ sent[n].functionResponses[j].id = toolCalls[k].functionCalls[j].id
                     /\ sent[n].functionResponses[j].name = toolCalls[k].functionCalls[j].name
      ELSE /\ SentBy(k) = {}
           /\ toolCalls[k].i <= Len(toolCalls[k].functionCalls)
           /\ Len(toolCalls[k].functionResponses) = toolCalls[k].i - 1

(* a run with an unknown tool name and a tool that threw has sent its   *)
(* two responses while another run awaits a tool                         *)
C27_Witness ==
  /\ Len(toolCalls) = 2
  /\ Over(1) /\ ~Over(2)
  /\ Len(sent) = 1
  /\ sent[1].run = 1
  /\ Len(sent[1].functionResponses) = 2
  /\ sent[1].functionResponses[1].response.result = "Unknown tool called."
  /\ sent[1].functionResponses[2].response.result = "Error executing tool."

(* C28: isAwaitingFunctionResponse is true whenever at least one run of  *)
(* onToolCall is in progress and false once none is, also when a run     *)
(* ends with an exception and when two toolcall events overlap.          *)
C28_AwaitingWhileInProgress ==
  isAwaitingFunctionResponse <=> (\E k \in 1..Len(toolCalls) : ~Over(k))

(* C29: every non-null cameraTarget that is written results in exactly   *)
(* one flyTo with that target, after which cameraTarget is null and      *)
(* preventAutoFrame false; a target set while no MapController exists    *)
(* yet is still flown once the controller is available.  A target that   *)
(* waits in the store of an application with a MapController therefore   *)
(* has the run of the camera target effect that flies it ahead.          *)
C29_TargetIsFlown ==
  (mapController /\ cameraTarget # NoTarget) => targetEffectDue

(* all points of the list are the same point *)
Coincident(locations) ==
  \A j \in 1..Len(locations) : locations[j] = locations[1]

(* range is the range of pose plus 1000 m, which for a valid padding is  *)
(* a number of at least 1000 m, and 1000 m for coincident points         *)
RangePassedOn(pose, locations, pad, range) ==
  /\ range = FAdd(pose.range, Fin(1000))
  /\ ValidPadding(pad) => (IsFinite(range) /\ ~FGt(Fin(1000), range))
  /\ (ValidPadding(pad) /\ Coincident(locations)) => range = Fin(1000)

(* C30: every flight and every camera target that a caller derives from  *)
(* a pose of the engine has the range of the pose plus 1000 m, so for a  *)
(* non-empty list of points and a valid padding the range passed on is   *)
(* at least 1000 m, also for a single point and for coincident points.   *)
C30_RangeIsAtLeast1000 ==
  [][/\ \A i \in 1..Len(requests) :
          (requests[i].pc = "awaiting" /\ requests'[i].pc = "returned") =>
            IF requests[i].caller = "frameEntities"
              THEN RangePassedOn(requests'[i].pose, requests[i].locations,
                                 EnginePadding(requests[i].padding),
                                 Last(flights').endCamera.range)
              ELSE RangePassedOn(requests'[i].pose, requests[i].locations,
                                 EnginePadding(requests[i].padding),
                                 cameraTarget'.range)
      /\ (cameraTarget # NoTarget /\ cameraTarget' = NoTarget) =>
            Last(flights').endCamera.range = cameraTarget.range]_vars

(* frameEntities has flown to a single marker at 1000 m and the          *)
(* application has flown to the target of frameLocations for several     *)
(* points, which is farther away                                         *)
C30_Witness ==
  /\ Len(requests) = 2
  /\ requests[1].caller = "frameEntities" /\ requests[1].pc = "returned"
  /\ Len(requests[1].locations) = 1
  /\ ValidPadding(EnginePadding(requests[1].padding))
  /\ requests[2].caller = "frameLocations" /\ requests[2].pc = "returned"
  /\ ~Coincident(requests[2].locations)
  /\ ValidPadding(EnginePadding(requests[2].padding))
  /\ cameraTarget = NoTarget
  /\ Len(flights) = 2
  /\ flights[1].endCamera.range = Fin(1000)
  /\ flights[2].endCamera.range = FAdd(requests[2].pose.range, Fin(1000))
  /\ FGt(flights[2].endCamera.range, Fin(1000))

====
